---- MODULE Spec2Model ----
(***************************************************************************)
(* Extraction engine of the IRS 1040 tax-bracket scraper: the HTML path    *)
(* (html_scraper.py) and the PDF path (pdf_scraper.py), and the scripts    *)
(* scrape.py and scrape_pdf.py, which hold the same parsers under their    *)
(* own main().                                                             *)
(*                                                                         *)
(* Text is a sequence of one-character strings, so that the conversions    *)
(* of the code (int(), str.split, str.strip, re.search) are computed on    *)
(* the characters.  An optional value (Python None) is the empty tuple     *)
(* None, and a present value v is the one-element tuple Some(v).           *)
(***************************************************************************)
EXTENDS Integers, Sequences, FiniteSets, TLC

None == <<>>
Some(v) == <<v>>

(* ----------------------------- characters ----------------------------- *)

\* the decimal digits of int(), float() and \d of re (str.isdecimal), by
\* value: DigitsOf[d + 1] are the digits of value d, the ASCII digit first,
\* then those of the scripts at U+06F0, U+07C0, U+09E6, U+0AE6, U+0BE6,
\* U+0CE6, U+0DE6, U+0ED0, U+1090, U+17E0, U+19D0, U+1A80, U+1A90, U+1BB0,
\* U+A8D0, U+A9D0, U+A9F0 and U+ABF0.  The digits of the other scripts
\* are decimal digits too; a string of this module cannot hold them, and
\* they are not in the alphabet of the model
DigitsOf ==
  <<{"0", "۰", "߀", "০", "૦", "௦", "೦", "෦", "໐", "႐", "០", "᧐", "᪀", "᪐", "᮰", "꣐", "꧐", "꧰", "꯰"},
    {"1", "۱", "߁", "১", "૧", "௧", "೧", "෧", "໑", "႑", "១", "᧑", "᪁", "᪑", "᮱", "꣑", "꧑", "꧱", "꯱"},
    {"2", "۲", "߂", "২", "૨", "௨", "೨", "෨", "໒", "႒", "២", "᧒", "᪂", "᪒", "᮲", "꣒", "꧒", "꧲", "꯲"},
    {"3", "۳", "߃", "৩", "૩", "௩", "೩", "෩", "໓", "႓", "៣", "᧓", "᪃", "᪓", "᮳", "꣓", "꧓", "꧳", "꯳"},
    {"4", "۴", "߄", "৪", "૪", "௪", "೪", "෪", "໔", "႔", "៤", "᧔", "᪄", "᪔", "᮴", "꣔", "꧔", "꧴", "꯴"},
    {"5", "۵", "߅", "৫", "૫", "௫", "೫", "෫", "໕", "႕", "៥", "᧕", "᪅", "᪕", "᮵", "꣕", "꧕", "꧵", "꯵"},
    {"6", "۶", "߆", "৬", "૬", "௬", "೬", "෬", "໖", "႖", "៦", "᧖", "᪆", "᪖", "᮶", "꣖", "꧖", "꧶", "꯶"},
    {"7", "۷", "߇", "৭", "૭", "௭", "೭", "෭", "໗", "႗", "៧", "᧗", "᪇", "᪗", "᮷", "꣗", "꧗", "꧷", "꯷"},
    {"8", "۸", "߈", "৮", "૮", "௮", "೮", "෮", "໘", "႘", "៨", "᧘", "᪈", "᪘", "᮸", "꣘", "꧘", "꧸", "꯸"},
    {"9", "۹", "߉", "৯", "૯", "௯", "೯", "෯", "໙", "႙", "៩", "᧙", "᪉", "᪙", "᮹", "꣙", "꧙", "꧹", "꯹"}>>

Digit == UNION {DigitsOf[k] : k \in 1..10}

\* the whitespace of str.strip, str.split and \s of re (str.isspace):
\* U+0009 to U+000D, U+001C to U+001F, the space, U+0085, U+00A0, U+1680.
\* U+2000 to U+200A, U+2028, U+2029, U+202F, U+205F and U+3000 are
\* whitespace too; a string of this module cannot hold them, and they are
\* not in the alphabet of the model
Whitespace ==
  {"\t", "\n", "", "\f", "\r", "", "", "", "", " ", "", " ", " "}

\* the whitespace int() takes around the digits: that of str.strip without
\* U+001C to U+001F
IntWhitespace == {"\t", "\n", "", "\f", "\r", " ", "", " ", " "}

\* the value of a decimal digit
DigitVal(c) == (CHOOSE k \in 1..10 : c \in DigitsOf[k]) - 1

\* the ASCII digit of a value, as str() writes it
DigitChar(d) ==
  CASE d = 0 -> "0" [] d = 1 -> "1" [] d = 2 -> "2" [] d = 3 -> "3"
    [] d = 4 -> "4" [] d = 5 -> "5" [] d = 6 -> "6" [] d = 7 -> "7"
    [] d = 8 -> "8" [] d = 9 -> "9"

(* ------------------------- str methods of Python ---------------------- *)

RECURSIVE LStrip(_, _)
LStrip(s, set) == IF s # <<>> /\ Head(s) \in set THEN LStrip(Tail(s), set) ELSE s

RECURSIVE RStrip(_, _)
RStrip(s, set) ==
  IF s # <<>> /\ s[Len(s)] \in set
    THEN RStrip(SubSeq(s, 1, Len(s) - 1), set)
    ELSE s

\* s.strip()
Strip(s) == RStrip(LStrip(s, Whitespace), Whitespace)

\* s without the whitespace int() allows around the digits
IntStrip(s) == RStrip(LStrip(s, IntWhitespace), IntWhitespace)

\* s.replace(",", "")
StripCommas(s) == SelectSeq(s, LAMBDA c : c # ",")

\* lit occurs in text at position p (1-based)
MatchAt(text, lit, p) ==
  /\ p >= 1
  /\ p + Len(lit) - 1 <= Len(text)
  /\ \A k \in 1..Len(lit) : text[p + k - 1] = lit[k]

\* lit in text
Contains(text, lit) == \E p \in 1..(Len(text) + 1) : MatchAt(text, lit, p)

RECURSIVE SkipWhile(_, _, _)
\* the first position >= q of text whose character is not in set
SkipWhile(text, q, set) ==
  IF q <= Len(text) /\ text[q] \in set THEN SkipWhile(text, q + 1, set) ELSE q

\* the first position >= q of text whose character is in set
Upto(text, q, set) ==
  LET ps == {p \in q..Len(text) : text[p] \in set}
  IN IF ps = {} THEN Len(text) + 1 ELSE CHOOSE p \in ps : \A r \in ps : p <= r

\* the k-th least of a set of positions
Nth(ps, k) == CHOOSE p \in ps : Cardinality({q \in ps : q < p}) = k - 1

\* s.split(): the maximal runs of non-whitespace characters
Split(s) ==
  LET starts == {i \in 1..Len(s) :
                   s[i] \notin Whitespace /\ (i = 1 \/ s[i - 1] \in Whitespace)}
  IN [k \in 1..Cardinality(starts) |->
        SubSeq(s, Nth(starts, k), Upto(s, Nth(starts, k), Whitespace) - 1)]

\* s.split("\n"): empty pieces are kept
SplitLines(s) ==
  LET starts == {1} \cup {i + 1 : i \in {j \in 1..Len(s) : s[j] = "\n"}}
  IN [k \in 1..Cardinality(starts) |->
        SubSeq(s, Nth(starts, k), Upto(s, Nth(starts, k), {"\n"}) - 1)]

\* the characters str.lower() changes into a character that a string of
\* this module cannot hold (U+0181 into U+0253, U+10A0 into U+2D00, ...):
\* their lower-case form is none of the characters of a string
LowerNotHeld ==
  {"Ɓ", "Ɔ", "Ɖ", "Ɗ", "Ə", "Ɛ", "Ɠ", "Ɣ", "Ɩ", "Ɨ", "Ɯ", "Ɲ", "Ɵ", "Ͻ",
   "Ͼ", "Ͽ", "Ⴀ", "Ⴁ", "Ⴂ", "Ⴃ", "Ⴄ", "Ⴅ", "Ⴆ", "Ⴇ", "Ⴈ", "Ⴉ", "Ⴊ", "Ⴋ",
   "Ⴌ", "Ⴍ", "Ⴎ", "Ⴏ", "Ⴐ", "Ⴑ", "Ⴒ", "Ⴓ", "Ⴔ", "Ⴕ", "Ⴖ", "Ⴗ", "Ⴘ", "Ⴙ",
   "Ⴚ", "Ⴛ", "Ⴜ", "Ⴝ", "Ⴞ", "Ⴟ", "Ⴠ", "Ⴡ", "Ⴢ", "Ⴣ", "Ⴤ", "Ⴥ", "Ⴧ", "Ⴭ",
   "Ꭰ", "Ꭱ", "Ꭲ", "Ꭳ", "Ꭴ", "Ꭵ", "Ꭶ", "Ꭷ", "Ꭸ", "Ꭹ", "Ꭺ", "Ꭻ", "Ꭼ", "Ꭽ",
   "Ꭾ", "Ꭿ", "Ὰ", "Ά", "Ὲ", "Έ", "Ὴ", "Ή", "Ὶ", "Ί", "Ὺ", "Ύ", "Ὸ", "Ό",
   "Ὼ", "Ώ", "Ɥ", "Ɦ", "Ɜ", "Ɡ", "Ɬ", "Ɪ", "Ꭓ"}

\* the other characters str.lower() changes, each with its lower-case form
LowerPairs ==
  {<<"A", "a">>, <<"B", "b">>, <<"C", "c">>, <<"D", "d">>, <<"E", "e">>,
   <<"F", "f">>, <<"G", "g">>, <<"H", "h">>, <<"I", "i">>, <<"J", "j">>,
   <<"K", "k">>, <<"L", "l">>, <<"M", "m">>, <<"N", "n">>, <<"O", "o">>,
   <<"P", "p">>, <<"Q", "q">>, <<"R", "r">>, <<"S", "s">>, <<"T", "t">>,
   <<"U", "u">>, <<"V", "v">>, <<"W", "w">>, <<"X", "x">>, <<"Y", "y">>,
   <<"Z", "z">>, <<"À", "à">>, <<"Á", "á">>, <<"Â", "â">>, <<"Ã", "ã">>,
   <<"Ä", "ä">>, <<"Å", "å">>, <<"Æ", "æ">>, <<"Ç", "ç">>, <<"È", "è">>,
   <<"É", "é">>, <<"Ê", "ê">>, <<"Ë", "ë">>, <<"Ì", "ì">>, <<"Í", "í">>,
   <<"Î", "î">>, <<"Ï", "ï">>, <<"Ð", "ð">>, <<"Ñ", "ñ">>, <<"Ò", "ò">>,
   <<"Ó", "ó">>, <<"Ô", "ô">>, <<"Õ", "õ">>, <<"Ö", "ö">>, <<"Ø", "ø">>,
   <<"Ù", "ù">>, <<"Ú", "ú">>, <<"Û", "û">>, <<"Ü", "ü">>, <<"Ý", "ý">>,
   <<"Þ", "þ">>, <<"Ƃ", "ƃ">>, <<"Ƅ", "ƅ">>, <<"Ƈ", "ƈ">>, <<"Ƌ", "ƌ">>,
   <<"Ǝ", "ǝ">>, <<"Ƒ", "ƒ">>, <<"Ƙ", "ƙ">>, <<"Ơ", "ơ">>, <<"Ƣ", "ƣ">>,
   <<"Ƥ", "ƥ">>, <<"Ʀ", "ʀ">>, <<"Ƨ", "ƨ">>, <<"Ʃ", "ʃ">>, <<"Ƭ", "ƭ">>,
   <<"Ʈ", "ʈ">>, <<"Ư", "ư">>, <<"Ʊ", "ʊ">>, <<"Ʋ", "ʋ">>, <<"Ƴ", "ƴ">>,
   <<"Ƶ", "ƶ">>, <<"Ʒ", "ʒ">>, <<"Ƹ", "ƹ">>, <<"Ƽ", "ƽ">>, <<"Ǆ", "ǆ">>,
   <<"ǅ", "ǆ">>, <<"Ǉ", "ǉ">>, <<"ǈ", "ǉ">>, <<"Ǌ", "ǌ">>, <<"ǋ", "ǌ">>,
   <<"Ǎ", "ǎ">>, <<"Ǐ", "ǐ">>, <<"Ǒ", "ǒ">>, <<"Ǔ", "ǔ">>, <<"Ǖ", "ǖ">>,
   <<"Ǘ", "ǘ">>, <<"Ǚ", "ǚ">>, <<"Ǜ", "ǜ">>, <<"Ǟ", "ǟ">>, <<"Ǡ", "ǡ">>,
   <<"Ǣ", "ǣ">>, <<"Ǥ", "ǥ">>, <<"Ǧ", "ǧ">>, <<"Ǩ", "ǩ">>, <<"Ǫ", "ǫ">>,
   <<"Ǭ", "ǭ">>, <<"Ǯ", "ǯ">>, <<"Ǳ", "ǳ">>, <<"ǲ", "ǳ">>, <<"Ǵ", "ǵ">>,
   <<"Ƕ", "ƕ">>, <<"Ƿ", "ƿ">>, <<"Ǹ", "ǹ">>, <<"Ǻ", "ǻ">>, <<"Ǽ", "ǽ">>,
   <<"Ǿ", "ǿ">>, <<"Ά", "ά">>, <<"Έ", "έ">>, <<"Ή", "ή">>, <<"Ί", "ί">>,
   <<"Ό", "ό">>, <<"Ύ", "ύ">>, <<"Ώ", "ώ">>, <<"Α", "α">>, <<"Β", "β">>,
   <<"Γ", "γ">>, <<"Δ", "δ">>, <<"Ε", "ε">>, <<"Ζ", "ζ">>, <<"Η", "η">>,
   <<"Θ", "θ">>, <<"Ι", "ι">>, <<"Κ", "κ">>, <<"Λ", "λ">>, <<"Μ", "μ">>,
   <<"Ν", "ν">>, <<"Ξ", "ξ">>, <<"Ο", "ο">>, <<"Π", "π">>, <<"Ρ", "ρ">>,
   <<"Σ", "σ">>, <<"Τ", "τ">>, <<"Υ", "υ">>, <<"Φ", "φ">>, <<"Χ", "χ">>,
   <<"Ψ", "ψ">>, <<"Ω", "ω">>, <<"Ϊ", "ϊ">>, <<"Ϋ", "ϋ">>, <<"Ϗ", "ϗ">>,
   <<"Ϙ", "ϙ">>, <<"Ϛ", "ϛ">>, <<"Ϝ", "ϝ">>, <<"Ϟ", "ϟ">>, <<"Ϡ", "ϡ">>,
   <<"Ϣ", "ϣ">>, <<"Ϥ", "ϥ">>, <<"Ϧ", "ϧ">>, <<"Ϩ", "ϩ">>, <<"Ϫ", "ϫ">>,
   <<"Ϭ", "ϭ">>, <<"Ϯ", "ϯ">>, <<"ϴ", "θ">>, <<"Ϸ", "ϸ">>, <<"Ϲ", "ϲ">>,
   <<"Ϻ", "ϻ">>, <<"Ҁ", "ҁ">>, <<"Ҋ", "ҋ">>, <<"Ҍ", "ҍ">>, <<"Ҏ", "ҏ">>,
   <<"Ґ", "ґ">>, <<"Ғ", "ғ">>, <<"Ҕ", "ҕ">>, <<"Җ", "җ">>, <<"Ҙ", "ҙ">>,
   <<"Қ", "қ">>, <<"Ҝ", "ҝ">>, <<"Ҟ", "ҟ">>, <<"Ҡ", "ҡ">>, <<"Ң", "ң">>,
   <<"Ҥ", "ҥ">>, <<"Ҧ", "ҧ">>, <<"Ҩ", "ҩ">>, <<"Ҫ", "ҫ">>, <<"Ҭ", "ҭ">>,
   <<"Ү", "ү">>, <<"Ұ", "ұ">>, <<"Ҳ", "ҳ">>, <<"Ҵ", "ҵ">>, <<"Ҷ", "ҷ">>,
   <<"Ҹ", "ҹ">>, <<"Һ", "һ">>, <<"Ҽ", "ҽ">>, <<"Ҿ", "ҿ">>, <<"Ӏ", "ӏ">>,
   <<"Ӂ", "ӂ">>, <<"Ӄ", "ӄ">>, <<"Ӆ", "ӆ">>, <<"Ӈ", "ӈ">>, <<"Ӊ", "ӊ">>,
   <<"Ӌ", "ӌ">>, <<"Ӎ", "ӎ">>, <<"Ӑ", "ӑ">>, <<"Ӓ", "ӓ">>, <<"Ӕ", "ӕ">>,
   <<"Ӗ", "ӗ">>, <<"Ә", "ә">>, <<"Ӛ", "ӛ">>, <<"Ӝ", "ӝ">>, <<"Ӟ", "ӟ">>,
   <<"Ӡ", "ӡ">>, <<"Ӣ", "ӣ">>, <<"Ӥ", "ӥ">>, <<"Ӧ", "ӧ">>, <<"Ө", "ө">>,
   <<"Ӫ", "ӫ">>, <<"Ӭ", "ӭ">>, <<"Ӯ", "ӯ">>, <<"Ӱ", "ӱ">>, <<"Ӳ", "ӳ">>,
   <<"Ӵ", "ӵ">>, <<"Ӷ", "ӷ">>, <<"Ӹ", "ӹ">>, <<"Ӻ", "ӻ">>, <<"Ӽ", "ӽ">>,
   <<"Ӿ", "ӿ">>, <<"Ꮀ", "ꮀ">>, <<"Ꮁ", "ꮁ">>, <<"Ꮂ", "ꮂ">>, <<"Ꮃ", "ꮃ">>,
   <<"Ꮄ", "ꮄ">>, <<"Ꮅ", "ꮅ">>, <<"Ꮆ", "ꮆ">>, <<"Ꮇ", "ꮇ">>, <<"Ꮈ", "ꮈ">>,
   <<"Ꮉ", "ꮉ">>, <<"Ꮊ", "ꮊ">>, <<"Ꮋ", "ꮋ">>, <<"Ꮌ", "ꮌ">>, <<"Ꮍ", "ꮍ">>,
   <<"Ꮎ", "ꮎ">>, <<"Ꮏ", "ꮏ">>, <<"Ꮐ", "ꮐ">>, <<"Ꮑ", "ꮑ">>, <<"Ꮒ", "ꮒ">>,
   <<"Ꮓ", "ꮓ">>, <<"Ꮔ", "ꮔ">>, <<"Ꮕ", "ꮕ">>, <<"Ꮖ", "ꮖ">>, <<"Ꮗ", "ꮗ">>,
   <<"Ꮘ", "ꮘ">>, <<"Ꮙ", "ꮙ">>, <<"Ꮚ", "ꮚ">>, <<"Ꮛ", "ꮛ">>, <<"Ꮜ", "ꮜ">>,
   <<"Ꮝ", "ꮝ">>, <<"Ꮞ", "ꮞ">>, <<"Ꮟ", "ꮟ">>, <<"Ꮠ", "ꮠ">>, <<"Ꮡ", "ꮡ">>,
   <<"Ꮢ", "ꮢ">>, <<"Ꮣ", "ꮣ">>, <<"Ꮤ", "ꮤ">>, <<"Ꮥ", "ꮥ">>, <<"Ꮦ", "ꮦ">>,
   <<"Ꮧ", "ꮧ">>, <<"Ꮨ", "ꮨ">>, <<"Ꮩ", "ꮩ">>, <<"Ꮪ", "ꮪ">>, <<"Ꮫ", "ꮫ">>,
   <<"Ꮬ", "ꮬ">>, <<"Ꮭ", "ꮭ">>, <<"Ꮮ", "ꮮ">>, <<"Ꮯ", "ꮯ">>, <<"Ꮰ", "ꮰ">>,
   <<"Ꮱ", "ꮱ">>, <<"Ꮲ", "ꮲ">>, <<"Ꮳ", "ꮳ">>, <<"Ꮴ", "ꮴ">>, <<"Ꮵ", "ꮵ">>,
   <<"Ꮶ", "ꮶ">>, <<"Ꮷ", "ꮷ">>, <<"Ꮸ", "ꮸ">>, <<"Ꮹ", "ꮹ">>, <<"Ꮺ", "ꮺ">>,
   <<"Ꮻ", "ꮻ">>, <<"Ꮼ", "ꮼ">>, <<"Ꮽ", "ꮽ">>, <<"Ꮾ", "ꮾ">>, <<"Ꮿ", "ꮿ">>,
   <<"Ᏸ", "ᏸ">>, <<"Ᏹ", "ᏹ">>, <<"Ᏺ", "ᏺ">>, <<"Ᏻ", "ᏻ">>, <<"Ᏼ", "ᏼ">>,
   <<"Ᏽ", "ᏽ">>, <<"Ა", "ა">>, <<"Ბ", "ბ">>, <<"Გ", "გ">>, <<"Დ", "დ">>,
   <<"Ე", "ე">>, <<"Ვ", "ვ">>, <<"Ზ", "ზ">>, <<"Თ", "თ">>, <<"Ი", "ი">>,
   <<"Კ", "კ">>, <<"Ლ", "ლ">>, <<"Მ", "მ">>, <<"Ნ", "ნ">>, <<"Ო", "ო">>,
   <<"Პ", "პ">>, <<"Ჟ", "ჟ">>, <<"Რ", "რ">>, <<"Ს", "ს">>, <<"Ტ", "ტ">>,
   <<"Უ", "უ">>, <<"Ფ", "ფ">>, <<"Ქ", "ქ">>, <<"Ღ", "ღ">>, <<"Ყ", "ყ">>,
   <<"Შ", "შ">>, <<"Ჩ", "ჩ">>, <<"Ც", "ც">>, <<"Ძ", "ძ">>, <<"Წ", "წ">>,
   <<"Ჭ", "ჭ">>, <<"Ხ", "ხ">>, <<"Ჯ", "ჯ">>, <<"Ჰ", "ჰ">>, <<"Ჱ", "ჱ">>,
   <<"Ჲ", "ჲ">>, <<"Ჳ", "ჳ">>, <<"Ჴ", "ჴ">>, <<"Ჵ", "ჵ">>, <<"Ჶ", "ჶ">>,
   <<"Ჷ", "ჷ">>, <<"Ჸ", "ჸ">>, <<"Ჹ", "ჹ">>, <<"Ჺ", "ჺ">>, <<"Ჽ", "ჽ">>,
   <<"Ჾ", "ჾ">>, <<"Ჿ", "ჿ">>, <<"Ẁ", "ẁ">>, <<"Ẃ", "ẃ">>, <<"Ẅ", "ẅ">>,
   <<"Ẇ", "ẇ">>, <<"Ẉ", "ẉ">>, <<"Ẋ", "ẋ">>, <<"Ẍ", "ẍ">>, <<"Ẏ", "ẏ">>,
   <<"Ẑ", "ẑ">>, <<"Ẓ", "ẓ">>, <<"Ẕ", "ẕ">>, <<"ẞ", "ß">>, <<"Ạ", "ạ">>,
   <<"Ả", "ả">>, <<"Ấ", "ấ">>, <<"Ầ", "ầ">>, <<"Ẩ", "ẩ">>, <<"Ẫ", "ẫ">>,
   <<"Ậ", "ậ">>, <<"Ắ", "ắ">>, <<"Ằ", "ằ">>, <<"Ẳ", "ẳ">>, <<"Ẵ", "ẵ">>,
   <<"Ặ", "ặ">>, <<"Ẹ", "ẹ">>, <<"Ẻ", "ẻ">>, <<"Ẽ", "ẽ">>, <<"Ế", "ế">>,
   <<"Ề", "ề">>, <<"Ể", "ể">>, <<"Ễ", "ễ">>, <<"Ệ", "ệ">>, <<"Ỉ", "ỉ">>,
   <<"Ị", "ị">>, <<"Ọ", "ọ">>, <<"Ỏ", "ỏ">>, <<"Ố", "ố">>, <<"Ồ", "ồ">>,
   <<"Ổ", "ổ">>, <<"Ỗ", "ỗ">>, <<"Ộ", "ộ">>, <<"Ớ", "ớ">>, <<"Ờ", "ờ">>,
   <<"Ở", "ở">>, <<"Ỡ", "ỡ">>, <<"Ợ", "ợ">>, <<"Ụ", "ụ">>, <<"Ủ", "ủ">>,
   <<"Ứ", "ứ">>, <<"Ừ", "ừ">>, <<"Ử", "ử">>, <<"Ữ", "ữ">>, <<"Ự", "ự">>,
   <<"Ỳ", "ỳ">>, <<"Ỵ", "ỵ">>, <<"Ỷ", "ỷ">>, <<"Ỹ", "ỹ">>, <<"Ỻ", "ỻ">>,
   <<"Ỽ", "ỽ">>, <<"Ỿ", "ỿ">>, <<"ᾈ", "ᾀ">>, <<"ᾉ", "ᾁ">>, <<"ᾊ", "ᾂ">>,
   <<"ᾋ", "ᾃ">>, <<"ᾌ", "ᾄ">>, <<"ᾍ", "ᾅ">>, <<"ᾎ", "ᾆ">>, <<"ᾏ", "ᾇ">>,
   <<"ᾘ", "ᾐ">>, <<"ᾙ", "ᾑ">>, <<"ᾚ", "ᾒ">>, <<"ᾛ", "ᾓ">>, <<"ᾜ", "ᾔ">>,
   <<"ᾝ", "ᾕ">>, <<"ᾞ", "ᾖ">>, <<"ᾟ", "ᾗ">>, <<"ᾨ", "ᾠ">>, <<"ᾩ", "ᾡ">>,
   <<"ᾪ", "ᾢ">>, <<"ᾫ", "ᾣ">>, <<"ᾬ", "ᾤ">>, <<"ᾭ", "ᾥ">>, <<"ᾮ", "ᾦ">>,
   <<"ᾯ", "ᾧ">>, <<"Ᾰ", "ᾰ">>, <<"Ᾱ", "ᾱ">>, <<"ᾼ", "ᾳ">>, <<"ῌ", "ῃ">>,
   <<"Ῐ", "ῐ">>, <<"Ῑ", "ῑ">>, <<"Ῠ", "ῠ">>, <<"Ῡ", "ῡ">>, <<"Ῥ", "ῥ">>,
   <<"ῼ", "ῳ">>, <<"Ↄ", "ↄ">>, <<"Ⓐ", "ⓐ">>, <<"Ⓑ", "ⓑ">>, <<"Ⓒ", "ⓒ">>,
   <<"Ⓓ", "ⓓ">>, <<"Ⓔ", "ⓔ">>, <<"Ⓕ", "ⓕ">>, <<"Ⓖ", "ⓖ">>, <<"Ⓗ", "ⓗ">>,
   <<"Ⓘ", "ⓘ">>, <<"Ⓙ", "ⓙ">>, <<"Ⓚ", "ⓚ">>, <<"Ⓛ", "ⓛ">>, <<"Ⓜ", "ⓜ">>,
   <<"Ⓝ", "ⓝ">>, <<"Ⓞ", "ⓞ">>, <<"Ⓟ", "ⓟ">>, <<"Ⓠ", "ⓠ">>, <<"Ⓡ", "ⓡ">>,
   <<"Ⓢ", "ⓢ">>, <<"Ⓣ", "ⓣ">>, <<"Ⓤ", "ⓤ">>, <<"Ⓥ", "ⓥ">>, <<"Ⓦ", "ⓦ">>,
   <<"Ⓧ", "ⓧ">>, <<"Ⓨ", "ⓨ">>, <<"Ⓩ", "ⓩ">>, <<"Ⲁ", "ⲁ">>, <<"Ⲃ", "ⲃ">>,
   <<"Ⲅ", "ⲅ">>, <<"Ⲇ", "ⲇ">>, <<"Ⲉ", "ⲉ">>, <<"Ⲋ", "ⲋ">>, <<"Ⲍ", "ⲍ">>,
   <<"Ⲏ", "ⲏ">>, <<"Ⲑ", "ⲑ">>, <<"Ⲓ", "ⲓ">>, <<"Ⲕ", "ⲕ">>, <<"Ⲗ", "ⲗ">>,
   <<"Ⲙ", "ⲙ">>, <<"Ⲛ", "ⲛ">>, <<"Ⲝ", "ⲝ">>, <<"Ⲟ", "ⲟ">>, <<"Ⲡ", "ⲡ">>,
   <<"Ⲣ", "ⲣ">>, <<"Ⲥ", "ⲥ">>, <<"Ⲧ", "ⲧ">>, <<"Ⲩ", "ⲩ">>, <<"Ⲫ", "ⲫ">>,
   <<"Ⲭ", "ⲭ">>, <<"Ⲯ", "ⲯ">>, <<"Ⲱ", "ⲱ">>, <<"Ⲳ", "ⲳ">>, <<"Ⲵ", "ⲵ">>,
   <<"Ⲷ", "ⲷ">>, <<"Ⲹ", "ⲹ">>, <<"Ⲻ", "ⲻ">>, <<"Ⲽ", "ⲽ">>, <<"Ⲿ", "ⲿ">>,
   <<"Ⳁ", "ⳁ">>, <<"Ⳃ", "ⳃ">>, <<"Ⳅ", "ⳅ">>, <<"Ⳇ", "ⳇ">>, <<"Ⳉ", "ⳉ">>,
   <<"Ⳋ", "ⳋ">>, <<"Ⳍ", "ⳍ">>, <<"Ⳏ", "ⳏ">>, <<"Ⳑ", "ⳑ">>, <<"Ⳓ", "ⳓ">>,
   <<"Ⳕ", "ⳕ">>, <<"Ⳗ", "ⳗ">>, <<"Ⳙ", "ⳙ">>, <<"Ⳛ", "ⳛ">>, <<"Ⳝ", "ⳝ">>,
   <<"Ⳟ", "ⳟ">>, <<"Ⳡ", "ⳡ">>, <<"Ⳣ", "ⳣ">>, <<"Ⳬ", "ⳬ">>, <<"Ⳮ", "ⳮ">>,
   <<"Ⳳ", "ⳳ">>, <<"Ꚁ", "ꚁ">>, <<"Ꚃ", "ꚃ">>, <<"Ꚅ", "ꚅ">>, <<"Ꚇ", "ꚇ">>,
   <<"Ꚉ", "ꚉ">>, <<"Ꚋ", "ꚋ">>, <<"Ꚍ", "ꚍ">>, <<"Ꚏ", "ꚏ">>, <<"Ꚑ", "ꚑ">>,
   <<"Ꚓ", "ꚓ">>, <<"Ꚕ", "ꚕ">>, <<"Ꚗ", "ꚗ">>, <<"Ꚙ", "ꚙ">>, <<"Ꚛ", "ꚛ">>,
   <<"Ꞁ", "ꞁ">>, <<"Ꞃ", "ꞃ">>, <<"Ꞅ", "ꞅ">>, <<"Ꞇ", "ꞇ">>, <<"Ꞌ", "ꞌ">>,
   <<"Ꞑ", "ꞑ">>, <<"Ꞓ", "ꞓ">>, <<"Ꞗ", "ꞗ">>, <<"Ꞙ", "ꞙ">>, <<"Ꞛ", "ꞛ">>,
   <<"Ꞝ", "ꞝ">>, <<"Ꞟ", "ꞟ">>, <<"Ꞡ", "ꞡ">>, <<"Ꞣ", "ꞣ">>, <<"Ꞥ", "ꞥ">>,
   <<"Ꞧ", "ꞧ">>, <<"Ꞩ", "ꞩ">>, <<"Ʞ", "ʞ">>, <<"Ʇ", "ʇ">>, <<"Ʝ", "ʝ">>,
   <<"Ꞵ", "ꞵ">>, <<"Ꞷ", "ꞷ">>, <<"Ꞹ", "ꞹ">>, <<"Ꞻ", "ꞻ">>, <<"Ꞽ", "ꞽ">>,
   <<"Ꞿ", "ꞿ">>, <<"Ꟁ", "ꟁ">>, <<"Ꟃ", "ꟃ">>, <<"Ꞔ", "ꞔ">>, <<"Ʂ", "ʂ">>,
   <<"Ᶎ", "ᶎ">>, <<"Ꟈ", "ꟈ">>, <<"Ꟊ", "ꟊ">>, <<"Ꟑ", "ꟑ">>, <<"Ꟗ", "ꟗ">>,
   <<"Ꟙ", "ꟙ">>, <<"Ꟶ", "ꟶ">>}

ToLower == [c \in {p[1] : p \in LowerPairs} |->
              (CHOOSE p \in LowerPairs : p[1] = c)[2]]

\* the cased characters (the lower-case, upper-case and title-case ones)
Cased ==
  {"A", "B", "C", "D", "E", "F", "G", "H", "I", "J", "K", "L", "M", "N",
   "O", "P", "Q", "R", "S", "T", "U", "V", "W", "X", "Y", "Z", "a", "b",
   "c", "d", "e", "f", "g", "h", "i", "j", "k", "l", "m", "n", "o", "p",
   "q", "r", "s", "t", "u", "v", "w", "x", "y", "z", "ª", "µ", "º", "À",
   "Á", "Â", "Ã", "Ä", "Å", "Æ", "Ç", "È", "É", "Ê", "Ë", "Ì", "Í", "Î",
   "Ï", "Ð", "Ñ", "Ò", "Ó", "Ô", "Õ", "Ö", "Ø", "Ù", "Ú", "Û", "Ü", "Ý",
   "Þ", "ß", "à", "á", "â", "ã", "ä", "å", "æ", "ç", "è", "é", "ê", "ë",
   "ì", "í", "î", "ï", "ð", "ñ", "ò", "ó", "ô", "õ", "ö", "ø", "ù", "ú",
   "û", "ü", "ý", "þ", "ÿ", "ƀ", "Ɓ", "Ƃ", "ƃ", "Ƅ", "ƅ", "Ɔ", "Ƈ", "ƈ",
   "Ɖ", "Ɗ", "Ƌ", "ƌ", "ƍ", "Ǝ", "Ə", "Ɛ", "Ƒ", "ƒ", "Ɠ", "Ɣ", "ƕ", "Ɩ",
   "Ɨ", "Ƙ", "ƙ", "ƚ", "ƛ", "Ɯ", "Ɲ", "ƞ", "Ɵ", "Ơ", "ơ", "Ƣ", "ƣ", "Ƥ",
   "ƥ", "Ʀ", "Ƨ", "ƨ", "Ʃ", "ƪ", "ƫ", "Ƭ", "ƭ", "Ʈ", "Ư", "ư", "Ʊ", "Ʋ",
   "Ƴ", "ƴ", "Ƶ", "ƶ", "Ʒ", "Ƹ", "ƹ", "ƺ", "Ƽ", "ƽ", "ƾ", "ƿ", "Ǆ", "ǅ",
   "ǆ", "Ǉ", "ǈ", "ǉ", "Ǌ", "ǋ", "ǌ", "Ǎ", "ǎ", "Ǐ", "ǐ", "Ǒ", "ǒ", "Ǔ",
   "ǔ", "Ǖ", "ǖ", "Ǘ", "ǘ", "Ǚ", "ǚ", "Ǜ", "ǜ", "ǝ", "Ǟ", "ǟ", "Ǡ", "ǡ",
   "Ǣ", "ǣ", "Ǥ", "ǥ", "Ǧ", "ǧ", "Ǩ", "ǩ", "Ǫ", "ǫ", "Ǭ", "ǭ", "Ǯ", "ǯ",
   "ǰ", "Ǳ", "ǲ", "ǳ", "Ǵ", "ǵ", "Ƕ", "Ƿ", "Ǹ", "ǹ", "Ǻ", "ǻ", "Ǽ", "ǽ",
   "Ǿ", "ǿ", "ʀ", "ʁ", "ʂ", "ʃ", "ʄ", "ʅ", "ʆ", "ʇ", "ʈ", "ʉ", "ʊ", "ʋ",
   "ʌ", "ʍ", "ʎ", "ʏ", "ʐ", "ʑ", "ʒ", "ʓ", "ʕ", "ʖ", "ʗ", "ʘ", "ʙ", "ʚ",
   "ʛ", "ʜ", "ʝ", "ʞ", "ʟ", "ʠ", "ʡ", "ʢ", "ʣ", "ʤ", "ʥ", "ʦ", "ʧ", "ʨ",
   "ʩ", "ʪ", "ʫ", "ʬ", "ʭ", "ʮ", "ʯ", "ʰ", "ʱ", "ʲ", "ʳ", "ʴ", "ʵ", "ʶ",
   "ʷ", "ʸ", "ˀ", "ˁ", "ˠ", "ˡ", "ˢ", "ˣ", "ˤ", "Ά", "Έ", "Ή", "Ί", "Ό",
   "Ύ", "Ώ", "ΐ", "Α", "Β", "Γ", "Δ", "Ε", "Ζ", "Η", "Θ", "Ι", "Κ", "Λ",
   "Μ", "Ν", "Ξ", "Ο", "Π", "Ρ", "Σ", "Τ", "Υ", "Φ", "Χ", "Ψ", "Ω", "Ϊ",
   "Ϋ", "ά", "έ", "ή", "ί", "ΰ", "α", "β", "γ", "δ", "ε", "ζ", "η", "θ",
   "ι", "κ", "λ", "μ", "ν", "ξ", "ο", "π", "ρ", "ς", "σ", "τ", "υ", "φ",
   "χ", "ψ", "ω", "ϊ", "ϋ", "ό", "ύ", "ώ", "Ϗ", "ϐ", "ϑ", "ϒ", "ϓ", "ϔ",
   "ϕ", "ϖ", "ϗ", "Ϙ", "ϙ", "Ϛ", "ϛ", "Ϝ", "ϝ", "Ϟ", "ϟ", "Ϡ", "ϡ", "Ϣ",
   "ϣ", "Ϥ", "ϥ", "Ϧ", "ϧ", "Ϩ", "ϩ", "Ϫ", "ϫ", "Ϭ", "ϭ", "Ϯ", "ϯ", "ϰ",
   "ϱ", "ϲ", "ϳ", "ϴ", "ϵ", "Ϸ", "ϸ", "Ϲ", "Ϻ", "ϻ", "ϼ", "Ͻ", "Ͼ", "Ͽ",
   "Ҁ", "ҁ", "Ҋ", "ҋ", "Ҍ", "ҍ", "Ҏ", "ҏ", "Ґ", "ґ", "Ғ", "ғ", "Ҕ", "ҕ",
   "Җ", "җ", "Ҙ", "ҙ", "Қ", "қ", "Ҝ", "ҝ", "Ҟ", "ҟ", "Ҡ", "ҡ", "Ң", "ң",
   "Ҥ", "ҥ", "Ҧ", "ҧ", "Ҩ", "ҩ", "Ҫ", "ҫ", "Ҭ", "ҭ", "Ү", "ү", "Ұ", "ұ",
   "Ҳ", "ҳ", "Ҵ", "ҵ", "Ҷ", "ҷ", "Ҹ", "ҹ", "Һ", "һ", "Ҽ", "ҽ", "Ҿ", "ҿ",
   "Ӏ", "Ӂ", "ӂ", "Ӄ", "ӄ", "Ӆ", "ӆ", "Ӈ", "ӈ", "Ӊ", "ӊ", "Ӌ", "ӌ", "Ӎ",
   "ӎ", "ӏ", "Ӑ", "ӑ", "Ӓ", "ӓ", "Ӕ", "ӕ", "Ӗ", "ӗ", "Ә", "ә", "Ӛ", "ӛ",
   "Ӝ", "ӝ", "Ӟ", "ӟ", "Ӡ", "ӡ", "Ӣ", "ӣ", "Ӥ", "ӥ", "Ӧ", "ӧ", "Ө", "ө",
   "Ӫ", "ӫ", "Ӭ", "ӭ", "Ӯ", "ӯ", "Ӱ", "ӱ", "Ӳ", "ӳ", "Ӵ", "ӵ", "Ӷ", "ӷ",
   "Ӹ", "ӹ", "Ӻ", "ӻ", "Ӽ", "ӽ", "Ӿ", "ӿ", "ր", "ց", "ւ", "փ", "ք", "օ",
   "ֆ", "և", "ֈ", "Ⴀ", "Ⴁ", "Ⴂ", "Ⴃ", "Ⴄ", "Ⴅ", "Ⴆ", "Ⴇ", "Ⴈ", "Ⴉ", "Ⴊ",
   "Ⴋ", "Ⴌ", "Ⴍ", "Ⴎ", "Ⴏ", "Ⴐ", "Ⴑ", "Ⴒ", "Ⴓ", "Ⴔ", "Ⴕ", "Ⴖ", "Ⴗ", "Ⴘ",
   "Ⴙ", "Ⴚ", "Ⴛ", "Ⴜ", "Ⴝ", "Ⴞ", "Ⴟ", "Ⴠ", "Ⴡ", "Ⴢ", "Ⴣ", "Ⴤ", "Ⴥ", "Ⴧ",
   "Ⴭ", "ა", "ბ", "გ", "დ", "ე", "ვ", "ზ", "თ", "ი", "კ", "ლ", "მ", "ნ",
   "ო", "პ", "ჟ", "რ", "ს", "ტ", "უ", "ფ", "ქ", "ღ", "ყ", "შ", "ჩ", "ც",
   "ძ", "წ", "ჭ", "ხ", "ჯ", "ჰ", "ჱ", "ჲ", "ჳ", "ჴ", "ჵ", "ჶ", "ჷ", "ჸ",
   "ჹ", "ჺ", "ჽ", "ჾ", "ჿ", "Ꭰ", "Ꭱ", "Ꭲ", "Ꭳ", "Ꭴ", "Ꭵ", "Ꭶ", "Ꭷ", "Ꭸ",
   "Ꭹ", "Ꭺ", "Ꭻ", "Ꭼ", "Ꭽ", "Ꭾ", "Ꭿ", "Ꮀ", "Ꮁ", "Ꮂ", "Ꮃ", "Ꮄ", "Ꮅ", "Ꮆ",
   "Ꮇ", "Ꮈ", "Ꮉ", "Ꮊ", "Ꮋ", "Ꮌ", "Ꮍ", "Ꮎ", "Ꮏ", "Ꮐ", "Ꮑ", "Ꮒ", "Ꮓ", "Ꮔ",
   "Ꮕ", "Ꮖ", "Ꮗ", "Ꮘ", "Ꮙ", "Ꮚ", "Ꮛ", "Ꮜ", "Ꮝ", "Ꮞ", "Ꮟ", "Ꮠ", "Ꮡ", "Ꮢ",
   "Ꮣ", "Ꮤ", "Ꮥ", "Ꮦ", "Ꮧ", "Ꮨ", "Ꮩ", "Ꮪ", "Ꮫ", "Ꮬ", "Ꮭ", "Ꮮ", "Ꮯ", "Ꮰ",
   "Ꮱ", "Ꮲ", "Ꮳ", "Ꮴ", "Ꮵ", "Ꮶ", "Ꮷ", "Ꮸ", "Ꮹ", "Ꮺ", "Ꮻ", "Ꮼ", "Ꮽ", "Ꮾ",
   "Ꮿ", "Ᏸ", "Ᏹ", "Ᏺ", "Ᏻ", "Ᏼ", "Ᏽ", "ᏸ", "ᏹ", "ᏺ", "ᏻ", "ᏼ", "ᏽ", "ᲀ",
   "ᲁ", "ᲂ", "ᲃ", "ᲄ", "ᲅ", "ᲆ", "ᲇ", "ᲈ", "Ა", "Ბ", "Გ", "Დ", "Ე", "Ვ",
   "Ზ", "Თ", "Ი", "Კ", "Ლ", "Მ", "Ნ", "Ო", "Პ", "Ჟ", "Რ", "Ს", "Ტ", "Უ",
   "Ფ", "Ქ", "Ღ", "Ყ", "Შ", "Ჩ", "Ც", "Ძ", "Წ", "Ჭ", "Ხ", "Ჯ", "Ჰ", "Ჱ",
   "Ჲ", "Ჳ", "Ჴ", "Ჵ", "Ჶ", "Ჷ", "Ჸ", "Ჹ", "Ჺ", "Ჽ", "Ჾ", "Ჿ", "ᶀ", "ᶁ",
   "ᶂ", "ᶃ", "ᶄ", "ᶅ", "ᶆ", "ᶇ", "ᶈ", "ᶉ", "ᶊ", "ᶋ", "ᶌ", "ᶍ", "ᶎ", "ᶏ",
   "ᶐ", "ᶑ", "ᶒ", "ᶓ", "ᶔ", "ᶕ", "ᶖ", "ᶗ", "ᶘ", "ᶙ", "ᶚ", "ᶛ", "ᶜ", "ᶝ",
   "ᶞ", "ᶟ", "ᶠ", "ᶡ", "ᶢ", "ᶣ", "ᶤ", "ᶥ", "ᶦ", "ᶧ", "ᶨ", "ᶩ", "ᶪ", "ᶫ",
   "ᶬ", "ᶭ", "ᶮ", "ᶯ", "ᶰ", "ᶱ", "ᶲ", "ᶳ", "ᶴ", "ᶵ", "ᶶ", "ᶷ", "ᶸ", "ᶹ",
   "ᶺ", "ᶻ", "ᶼ", "ᶽ", "ᶾ", "ᶿ", "Ẁ", "ẁ", "Ẃ", "ẃ", "Ẅ", "ẅ", "Ẇ", "ẇ",
   "Ẉ", "ẉ", "Ẋ", "ẋ", "Ẍ", "ẍ", "Ẏ", "ẏ", "Ẑ", "ẑ", "Ẓ", "ẓ", "Ẕ", "ẕ",
   "ẖ", "ẗ", "ẘ", "ẙ", "ẚ", "ẛ", "ẜ", "ẝ", "ẞ", "ẟ", "Ạ", "ạ", "Ả", "ả",
   "Ấ", "ấ", "Ầ", "ầ", "Ẩ", "ẩ", "Ẫ", "ẫ", "Ậ", "ậ", "Ắ", "ắ", "Ằ", "ằ",
   "Ẳ", "ẳ", "Ẵ", "ẵ", "Ặ", "ặ", "Ẹ", "ẹ", "Ẻ", "ẻ", "Ẽ", "ẽ", "Ế", "ế",
   "Ề", "ề", "Ể", "ể", "Ễ", "ễ", "Ệ", "ệ", "Ỉ", "ỉ", "Ị", "ị", "Ọ", "ọ",
   "Ỏ", "ỏ", "Ố", "ố", "Ồ", "ồ", "Ổ", "ổ", "Ỗ", "ỗ", "Ộ", "ộ", "Ớ", "ớ",
   "Ờ", "ờ", "Ở", "ở", "Ỡ", "ỡ", "Ợ", "ợ", "Ụ", "ụ", "Ủ", "ủ", "Ứ", "ứ",
   "Ừ", "ừ", "Ử", "ử", "Ữ", "ữ", "Ự", "ự", "Ỳ", "ỳ", "Ỵ", "ỵ", "Ỷ", "ỷ",
   "Ỹ", "ỹ", "Ỻ", "ỻ", "Ỽ", "ỽ", "Ỿ", "ỿ", "ᾀ", "ᾁ", "ᾂ", "ᾃ", "ᾄ", "ᾅ",
   "ᾆ", "ᾇ", "ᾈ", "ᾉ", "ᾊ", "ᾋ", "ᾌ", "ᾍ", "ᾎ", "ᾏ", "ᾐ", "ᾑ", "ᾒ", "ᾓ",
   "ᾔ", "ᾕ", "ᾖ", "ᾗ", "ᾘ", "ᾙ", "ᾚ", "ᾛ", "ᾜ", "ᾝ", "ᾞ", "ᾟ", "ᾠ", "ᾡ",
   "ᾢ", "ᾣ", "ᾤ", "ᾥ", "ᾦ", "ᾧ", "ᾨ", "ᾩ", "ᾪ", "ᾫ", "ᾬ", "ᾭ", "ᾮ", "ᾯ",
   "ᾰ", "ᾱ", "ᾲ", "ᾳ", "ᾴ", "ᾶ", "ᾷ", "Ᾰ", "Ᾱ", "Ὰ", "Ά", "ᾼ", "ι", "ῂ",
   "ῃ", "ῄ", "ῆ", "ῇ", "Ὲ", "Έ", "Ὴ", "Ή", "ῌ", "ῐ", "ῑ", "ῒ", "ΐ", "ῖ",
   "ῗ", "Ῐ", "Ῑ", "Ὶ", "Ί", "ῠ", "ῡ", "ῢ", "ΰ", "ῤ", "ῥ", "ῦ", "ῧ", "Ῠ",
   "Ῡ", "Ὺ", "Ύ", "Ῥ", "ῲ", "ῳ", "ῴ", "ῶ", "ῷ", "Ὸ", "Ό", "Ὼ", "Ώ", "ῼ",
   "ₐ", "ₑ", "ₒ", "ₓ", "ₔ", "ₕ", "ₖ", "ₗ", "ₘ", "ₙ", "ₚ", "ₛ", "ₜ", "Ↄ",
   "ↄ", "Ⓐ", "Ⓑ", "Ⓒ", "Ⓓ", "Ⓔ", "Ⓕ", "Ⓖ", "Ⓗ", "Ⓘ", "Ⓙ", "Ⓚ", "Ⓛ", "Ⓜ",
   "Ⓝ", "Ⓞ", "Ⓟ", "Ⓠ", "Ⓡ", "Ⓢ", "Ⓣ", "Ⓤ", "Ⓥ", "Ⓦ", "Ⓧ", "Ⓨ", "Ⓩ", "ⓐ",
   "ⓑ", "ⓒ", "ⓓ", "ⓔ", "ⓕ", "ⓖ", "ⓗ", "ⓘ", "ⓙ", "ⓚ", "ⓛ", "ⓜ", "ⓝ", "ⓞ",
   "ⓟ", "ⓠ", "ⓡ", "ⓢ", "ⓣ", "ⓤ", "ⓥ", "ⓦ", "ⓧ", "ⓨ", "ⓩ", "Ⲁ", "ⲁ", "Ⲃ",
   "ⲃ", "Ⲅ", "ⲅ", "Ⲇ", "ⲇ", "Ⲉ", "ⲉ", "Ⲋ", "ⲋ", "Ⲍ", "ⲍ", "Ⲏ", "ⲏ", "Ⲑ",
   "ⲑ", "Ⲓ", "ⲓ", "Ⲕ", "ⲕ", "Ⲗ", "ⲗ", "Ⲙ", "ⲙ", "Ⲛ", "ⲛ", "Ⲝ", "ⲝ", "Ⲟ",
   "ⲟ", "Ⲡ", "ⲡ", "Ⲣ", "ⲣ", "Ⲥ", "ⲥ", "Ⲧ", "ⲧ", "Ⲩ", "ⲩ", "Ⲫ", "ⲫ", "Ⲭ",
   "ⲭ", "Ⲯ", "ⲯ", "Ⲱ", "ⲱ", "Ⲳ", "ⲳ", "Ⲵ", "ⲵ", "Ⲷ", "ⲷ", "Ⲹ", "ⲹ", "Ⲻ",
   "ⲻ", "Ⲽ", "ⲽ", "Ⲿ", "ⲿ", "Ⳁ", "ⳁ", "Ⳃ", "ⳃ", "Ⳅ", "ⳅ", "Ⳇ", "ⳇ", "Ⳉ",
   "ⳉ", "Ⳋ", "ⳋ", "Ⳍ", "ⳍ", "Ⳏ", "ⳏ", "Ⳑ", "ⳑ", "Ⳓ", "ⳓ", "Ⳕ", "ⳕ", "Ⳗ",
   "ⳗ", "Ⳙ", "ⳙ", "Ⳛ", "ⳛ", "Ⳝ", "ⳝ", "Ⳟ", "ⳟ", "Ⳡ", "ⳡ", "Ⳣ", "ⳣ", "ⳤ",
   "Ⳬ", "ⳬ", "Ⳮ", "ⳮ", "Ⳳ", "ⳳ", "Ꚁ", "ꚁ", "Ꚃ", "ꚃ", "Ꚅ", "ꚅ", "Ꚇ", "ꚇ",
   "Ꚉ", "ꚉ", "Ꚋ", "ꚋ", "Ꚍ", "ꚍ", "Ꚏ", "ꚏ", "Ꚑ", "ꚑ", "Ꚓ", "ꚓ", "Ꚕ", "ꚕ",
   "Ꚗ", "ꚗ", "Ꚙ", "ꚙ", "Ꚛ", "ꚛ", "ꚜ", "ꚝ", "Ꞁ", "ꞁ", "Ꞃ", "ꞃ", "Ꞅ", "ꞅ",
   "Ꞇ", "ꞇ", "Ꞌ", "ꞌ", "Ɥ", "ꞎ", "Ꞑ", "ꞑ", "Ꞓ", "ꞓ", "ꞔ", "ꞕ", "Ꞗ", "ꞗ",
   "Ꞙ", "ꞙ", "Ꞛ", "ꞛ", "Ꞝ", "ꞝ", "Ꞟ", "ꞟ", "Ꞡ", "ꞡ", "Ꞣ", "ꞣ", "Ꞥ", "ꞥ",
   "Ꞧ", "ꞧ", "Ꞩ", "ꞩ", "Ɦ", "Ɜ", "Ɡ", "Ɬ", "Ɪ", "ꞯ", "Ʞ", "Ʇ", "Ʝ", "Ꭓ",
   "Ꞵ", "ꞵ", "Ꞷ", "ꞷ", "Ꞹ", "ꞹ", "Ꞻ", "ꞻ", "Ꞽ", "ꞽ", "Ꞿ", "ꞿ", "Ꟁ", "ꟁ",
   "Ꟃ", "ꟃ", "Ꞔ", "Ʂ", "Ᶎ", "Ꟈ", "ꟈ", "Ꟊ", "ꟊ", "Ꟑ", "ꟑ", "ꟓ", "ꟕ", "Ꟗ",
   "ꟗ", "Ꟙ", "ꟙ", "Ꟶ", "ꟶ", "ꟸ", "ꟹ", "ꟺ", "ꮀ", "ꮁ", "ꮂ", "ꮃ", "ꮄ", "ꮅ",
   "ꮆ", "ꮇ", "ꮈ", "ꮉ", "ꮊ", "ꮋ", "ꮌ", "ꮍ", "ꮎ", "ꮏ", "ꮐ", "ꮑ", "ꮒ", "ꮓ",
   "ꮔ", "ꮕ", "ꮖ", "ꮗ", "ꮘ", "ꮙ", "ꮚ", "ꮛ", "ꮜ", "ꮝ", "ꮞ", "ꮟ", "ꮠ", "ꮡ",
   "ꮢ", "ꮣ", "ꮤ", "ꮥ", "ꮦ", "ꮧ", "ꮨ", "ꮩ", "ꮪ", "ꮫ", "ꮬ", "ꮭ", "ꮮ", "ꮯ",
   "ꮰ", "ꮱ", "ꮲ", "ꮳ", "ꮴ", "ꮵ", "ꮶ", "ꮷ", "ꮸ", "ꮹ", "ꮺ", "ꮻ", "ꮼ", "ꮽ",
   "ꮾ", "ꮿ"}

\* the case-ignorable characters.  The grave accent U+0060 is one too; a
\* string of this module cannot hold it
CaseIgnorable ==
  {"'", ".", ":", "^", "¨", "­", "¯", "´", "·", "¸", "ʰ", "ʱ", "ʲ",
   "ʳ", "ʴ", "ʵ", "ʶ", "ʷ", "ʸ", "ʹ", "ʺ", "ʻ", "ʼ", "ʽ", "ʾ", "ʿ", "ˀ",
   "ˁ", "˂", "˃", "˄", "˅", "ˆ", "ˇ", "ˈ", "ˉ", "ˊ", "ˋ", "ˌ", "ˍ", "ˎ",
   "ˏ", "ː", "ˑ", "˒", "˓", "˔", "˕", "˖", "˗", "˘", "˙", "˚", "˛", "˜",
   "˝", "˞", "˟", "ˠ", "ˡ", "ˢ", "ˣ", "ˤ", "˥", "˦", "˧", "˨", "˩", "˪",
   "˫", "ˬ", "˭", "ˮ", "˯", "˰", "˱", "˲", "˳", "˴", "˵", "˶", "˷", "˸",
   "˹", "˺", "˻", "˼", "˽", "˾", "˿", "΄", "΅", "·", "҃", "҄", "҅", "҆",
   "҇", "҈", "҉", "֑", "֒", "֓", "֔", "֕", "֖", "֗", "֘", "֙", "֚", "֛",
   "֜", "֝", "֞", "֟", "֠", "֡", "֢", "֣", "֤", "֥", "֦", "֧", "֨", "֩",
   "֪", "֫", "֬", "֭", "֮", "֯", "ְ", "ֱ", "ֲ", "ֳ", "ִ", "ֵ", "ֶ", "ַ",
   "ָ", "ֹ", "ֺ", "ֻ", "ּ", "ֽ", "ֿ", "ׁ", "ׂ", "ׄ", "ׅ", "ׇ", "״", "ۖ",
   "ۗ", "ۘ", "ۙ", "ۚ", "ۛ", "ۜ", "۝", "۟", "۠", "ۡ", "ۢ", "ۣ", "ۤ", "ۥ",
   "ۦ", "ۧ", "ۨ", "۪", "۫", "۬", "ۭ", "ަ", "ާ", "ި", "ީ", "ު", "ޫ", "ެ",
   "ޭ", "ޮ", "ޯ", "ް", "߫", "߬", "߭", "߮", "߯", "߰", "߱", "߲", "߳", "ߴ",
   "ߵ", "ߺ", "߽", "࢈", "࢐", "࢑", "࢘", "࢙", "࢚", "࢛", "࢜", "࢝", "࢞", "࢟",
   "ࣉ", "࣊", "࣋", "࣌", "࣍", "࣎", "࣏", "࣐", "࣑", "࣒", "࣓", "ࣔ", "ࣕ", "ࣖ",
   "ࣗ", "ࣘ", "ࣙ", "ࣚ", "ࣛ", "ࣜ", "ࣝ", "ࣞ", "ࣟ", "࣠", "࣡", "࣢", "ࣣ", "ࣤ",
   "ࣥ", "ࣦ", "ࣧ", "ࣨ", "ࣩ", "࣪", "࣫", "࣬", "࣭", "࣮", "࣯", "ࣰ", "ࣱ", "ࣲ",
   "ࣳ", "ࣴ", "ࣵ", "ࣶ", "ࣷ", "ࣸ", "ࣹ", "ࣺ", "ࣻ", "ࣼ", "ࣽ", "ࣾ", "ࣿ", "ঁ",
   "়", "ু", "ূ", "ৃ", "ৄ", "্", "ৢ", "ৣ", "৾", "ઁ", "ં", "઼", "ુ", "ૂ",
   "ૃ", "ૄ", "ૅ", "ે", "ૈ", "્", "ૢ", "ૣ", "ૺ", "ૻ", "ૼ", "૽", "૾", "૿",
   "ஂ", "ீ", "்", "ಁ", "಼", "ಿ", "ೆ", "ೌ", "್", "ೢ", "ೣ", "ඁ", "්", "ි",
   "ී", "ු", "ූ", "ັ", "ິ", "ີ", "ຶ", "ື", "ຸ", "ູ", "຺", "ົ", "ຼ", "ໆ",
   "່", "້", "໊", "໋", "໌", "ໍ", "ྀ", "ཱྀ", "ྂ", "ྃ", "྄", "྆", "྇", "ྍ",
   "ྎ", "ྏ", "ྐ", "ྑ", "ྒ", "ྒྷ", "ྔ", "ྕ", "ྖ", "ྗ", "ྙ", "ྚ", "ྛ", "ྜ",
   "ྜྷ", "ྞ", "ྟ", "ྠ", "ྡ", "ྡྷ", "ྣ", "ྤ", "ྥ", "ྦ", "ྦྷ", "ྨ", "ྩ", "ྪ",
   "ྫ", "ྫྷ", "ྭ", "ྮ", "ྯ", "ྰ", "ྱ", "ྲ", "ླ", "ྴ", "ྵ", "ྶ", "ྷ", "ྸ",
   "ྐྵ", "ྺ", "ྻ", "ྼ", "࿆", "ႂ", "ႅ", "ႆ", "ႍ", "ႝ", "ჼ", "឴", "឵", "ិ",
   "ី", "ឹ", "ឺ", "ុ", "ូ", "ួ", "ំ", "៉", "៊", "់", "៌", "៍", "៎", "៏",
   "័", "៑", "្", "៓", "ៗ", "៝", "ᢅ", "ᢆ", "ᢩ", "ᪧ", "᪰", "᪱", "᪲", "᪳",
   "᪴", "᪵", "᪶", "᪷", "᪸", "᪹", "᪺", "᪻", "᪼", "᪽", "᪾", "ᪿ", "ᫀ", "᫁",
   "᫂", "᫃", "᫄", "᫅", "᫆", "᫇", "᫈", "᫉", "᫊", "᫋", "ᫌ", "ᫍ", "ᫎ", "ᮀ",
   "ᮁ", "ᮢ", "ᮣ", "ᮤ", "ᮥ", "ᮨ", "ᮩ", "᮫", "ᮬ", "ᮭ", "᯦", "ᯨ", "ᯩ", "ᯭ",
   "ᯯ", "ᯰ", "ᯱ", "᳐", "᳑", "᳒", "᳔", "᳕", "᳖", "᳗", "᳘", "᳙", "᳚", "᳛",
   "᳜", "᳝", "᳞", "᳟", "᳠", "᳢", "᳣", "᳤", "᳥", "᳦", "᳧", "᳨", "᳭", "᳴",
   "᳸", "᳹", "ᶛ", "ᶜ", "ᶝ", "ᶞ", "ᶟ", "ᶠ", "ᶡ", "ᶢ", "ᶣ", "ᶤ", "ᶥ", "ᶦ",
   "ᶧ", "ᶨ", "ᶩ", "ᶪ", "ᶫ", "ᶬ", "ᶭ", "ᶮ", "ᶯ", "ᶰ", "ᶱ", "ᶲ", "ᶳ", "ᶴ",
   "ᶵ", "ᶶ", "ᶷ", "ᶸ", "ᶹ", "ᶺ", "ᶻ", "ᶼ", "ᶽ", "ᶾ", "ᶿ", "᷀", "᷁", "᷂",
   "᷃", "᷄", "᷅", "᷆", "᷇", "᷈", "᷉", "᷊", "᷋", "᷌", "᷍", "᷎", "᷏", "᷐",
   "᷑", "᷒", "ᷓ", "ᷔ", "ᷕ", "ᷖ", "ᷗ", "ᷘ", "ᷙ", "ᷚ", "ᷛ", "ᷜ", "ᷝ", "ᷞ",
   "ᷟ", "ᷠ", "ᷡ", "ᷢ", "ᷣ", "ᷤ", "ᷥ", "ᷦ", "ᷧ", "ᷨ", "ᷩ", "ᷪ", "ᷫ", "ᷬ",
   "ᷭ", "ᷮ", "ᷯ", "ᷰ", "ᷱ", "ᷲ", "ᷳ", "ᷴ", "᷵", "᷶", "᷷", "᷸", "᷹", "᷺",
   "᷻", "᷼", "᷽", "᷾", "᷿", "᾽", "᾿", "῀", "῁", "῍", "῎", "῏", "῝", "῞",
   "῟", "῭", "΅", "`", "´", "῾", "ₐ", "ₑ", "ₒ", "ₓ", "ₔ", "ₕ", "ₖ", "ₗ",
   "ₘ", "ₙ", "ₚ", "ₛ", "ₜ", "⃐", "⃑", "⃒", "⃓", "⃔", "⃕", "⃖", "⃗", "⃘",
   "⃙", "⃚", "⃛", "⃜", "⃝", "⃞", "⃟", "⃠", "⃡", "⃢", "⃣", "⃤", "⃥", "⃦",
   "⃧", "⃨", "⃩", "⃪", "⃫", "⃬", "⃭", "⃮", "⃯", "⃰", "⳯", "⳰", "⳱", "ⷠ",
   "ⷡ", "ⷢ", "ⷣ", "ⷤ", "ⷥ", "ⷦ", "ⷧ", "ⷨ", "ⷩ", "ⷪ", "ⷫ", "ⷬ", "ⷭ", "ⷮ",
   "ⷯ", "ⷰ", "ⷱ", "ⷲ", "ⷳ", "ⷴ", "ⷵ", "ⷶ", "ⷷ", "ⷸ", "ⷹ", "ⷺ", "ⷻ", "ⷼ",
   "ⷽ", "ⷾ", "ⷿ", "゙", "゚", "゛", "゜", "ゝ", "ゞ", "ー", "ヽ", "ヾ", "ꓸ", "ꓹ",
   "ꓺ", "ꓻ", "ꓼ", "ꓽ", "ꚜ", "ꚝ", "ꚞ", "ꚟ", "꛰", "꛱", "ꞈ", "꞉", "꞊", "ꟲ",
   "ꟳ", "ꟴ", "ꟸ", "ꟹ", "꣄", "ꣅ", "꣠", "꣡", "꣢", "꣣", "꣤", "꣥", "꣦", "꣧",
   "꣨", "꣩", "꣪", "꣫", "꣬", "꣭", "꣮", "꣯", "꣰", "꣱", "ꣿ", "ꦀ", "ꦁ", "ꦂ",
   "꦳", "ꦶ", "ꦷ", "ꦸ", "ꦹ", "ꦼ", "ꦽ", "ꧏ", "ꧥ", "ꧦ", "ꪰ", "ꪲ", "ꪳ", "ꪴ",
   "ꪷ", "ꪸ", "ꪾ", "꪿", "꫁", "ꫝ", "ꫬ", "ꫭ", "ꫳ", "ꫴ", "꫶", "ꯥ", "ꯨ", "꯭",
   "﮲", "﮳", "﮴", "﮵", "﮶", "﮷", "﮸", "﮹", "﮺", "﮻", "﮼", "﮽", "﮾", "﮿",
   "﯀", "﯁", "﯂", "﻿", "ﾞ", "ﾟ", "￣", "￹", "￺", "￻"}

\* c.lower() == l, for l a character of a string
LowerCharIs(c, l) ==
  CASE c \in DOMAIN ToLower -> ToLower[c] = l
    [] c \in LowerNotHeld -> FALSE
    [] OTHER -> c = l

\* the capital sigma at position i of s is final: a cased character comes
\* before it, case-ignorable characters skipped, and none comes after it
FinalSigma(s, i) ==
  LET before == {j \in 1..(i - 1) : s[j] \notin CaseIgnorable}
      after == {j \in (i + 1)..Len(s) : s[j] \notin CaseIgnorable}
  IN /\ \E j \in before : s[j] \in Cased /\ \A q \in before : q <= j
     /\ \A j \in after : (\A q \in after : j <= q) => s[j] \notin Cased

\* s.lower()[k] == l (s.lower() is as long as s): character by character,
\* but for the capital sigma, which becomes the final sigma where it is
\* final
LowerAtIs(s, k, l) ==
  IF s[k] = "Σ" /\ FinalSigma(s, k) THEN l = "ς" ELSE LowerCharIs(s[k], l)

\* lit in s.lower()
InLower(lit, s) ==
  \E p \in 1..(Len(s) + 1) :
    /\ p + Len(lit) - 1 <= Len(s)
    /\ \A k \in 1..Len(lit) : LowerAtIs(s, p + k - 1, lit[k])

(* ------------------------------- int() -------------------------------- *)

RECURSIVE DigitsValue(_)
DigitsValue(ds) ==
  IF ds = <<>> THEN 0
  ELSE 10 * DigitsValue(SubSeq(ds, 1, Len(ds) - 1)) + DigitVal(ds[Len(ds)])

\* the digits of an integer literal: single underscores may separate digits
IsDigitRun(b) ==
  /\ b # <<>>
  /\ b[1] \in Digit
  /\ b[Len(b)] \in Digit
  /\ \A k \in 1..Len(b) : b[k] \in Digit \/ b[k] = "_"
  /\ \A k \in 1..(Len(b) - 1) : ~(b[k] = "_" /\ b[k + 1] = "_")

Unsigned(t) == IF t # <<>> /\ t[1] \in {"+", "-"} THEN Tail(t) ELSE t

\* the most digits int() converts: sys.get_int_max_str_digits(), 4300 by
\* default from CPython 3.11 on.  Leading zeros count, underscores do not
MaxStrDigits == 4300

\* int(s) does not raise ValueError
IntOk(s) ==
  LET b == Unsigned(IntStrip(s))
  IN /\ IsDigitRun(b)
     /\ \/ Len(b) <= MaxStrDigits
        \/ Len(SelectSeq(b, LAMBDA c : c \in Digit)) <= MaxStrDigits

\* int(s), for IntOk(s)
IntValue(s) ==
  LET t == IntStrip(s)
      v == DigitsValue(SelectSeq(Unsigned(t), LAMBDA c : c \in Digit))
  IN IF t # <<>> /\ t[1] = "-" THEN 0 - v ELSE v

(* ------------------- pdf_scraper.py: the tax table -------------------- *)

TaxTableLit == <<"T", "a", "x", " ", "T", "a", "b", "l", "e">>
YourTaxIsLit == <<"Y", "o", "u", "r", " ", "t", "a", "x", " ", "i", "s">>
AtButLit == <<"A", "t", " ", "B", "u", "t">>
WorksheetLit ==
  <<"T", "a", "x", " ", "C", "o", "m", "p", "u", "t", "a", "t", "i", "o", "n",
    " ", "W", "o", "r", "k", "s", "h", "e", "e", "t">>

\* parse_int(s) does not raise: int(s.replace(",", "").strip())
parse_int_ok(s) == IntOk(Strip(StripCommas(s)))

parse_int(s) == IntValue(Strip(StripCommas(s)))

\* page.extract_text() or ""
TextOf(page) == IF page.text = None THEN <<>> ELSE page.text[1]

\* the worksheet text closes the table whatever else the page holds
PageTransitionWorksheetFirst(in_tt, text) ==
  IF Contains(text, WorksheetLit) THEN FALSE
  ELSE IF Contains(text, TaxTableLit)
            /\ (Contains(text, YourTaxIsLit) \/ Contains(text, AtButLit))
    THEN TRUE
    ELSE in_tt

\* any mention of "Tax Table" opens the table
PageTransitionAnyMention(in_tt, text) ==
  IF Contains(text, TaxTableLit) THEN TRUE
  ELSE IF Contains(text, WorksheetLit) THEN FALSE ELSE in_tt

\* in_tax_table after the page's own transition
PageTransition(in_tt, text) ==
  IF Contains(text, TaxTableLit)
       /\ (Contains(text, YourTaxIsLit) \/ Contains(text, AtButLit))
    THEN TRUE
    ELSE IF Contains(text, WorksheetLit) THEN FALSE ELSE in_tt

\* the sanity check on a window's bounds
HighIncomeThreshold == 100000

Increments == {5, 10, 25, 50}

\* the check without the test of the width
SanityCheckNoWidth(income_min, income_max) ==
  income_max <= HighIncomeThreshold /\ income_min >= 0

\* the check with the width taken either way round
SanityCheckEitherWay(income_min, income_max) ==
  /\ (income_max - income_min) \in Increments \/ (income_min - income_max) \in Increments
  /\ income_max <= HighIncomeThreshold
  /\ income_min >= 0

SanityCheck(income_min, income_max) ==
  /\ (income_max - income_min) \in Increments
  /\ income_max <= HighIncomeThreshold
  /\ income_min >= 0

GroupSize == 6

\* the 6 tokens at cursor i (0-based, as in the code) all parse
WindowParses(parts, i) == \A k \in 1..GroupSize : parse_int_ok(parts[i + k])

WindowRow(parts, i) ==
  [income_min |-> parse_int(parts[i + 1]),
   income_max |-> parse_int(parts[i + 2]),
   single |-> parse_int(parts[i + 3]),
   married_filing_jointly |-> parse_int(parts[i + 4]),
   married_filing_separately |-> parse_int(parts[i + 5]),
   head_of_household |-> parse_int(parts[i + 6])]

\* the window at cursor i is emitted
WindowAccepted(parts, i) ==
  /\ WindowParses(parts, i)
  /\ SanityCheck(parse_int(parts[i + 1]), parse_int(parts[i + 2]))

\* the cursor moves one token on, also past an emitted window
NextCursorByOne(parts, i) == i + 1

\* the cursor after the window at i
NextCursor(parts, i) == IF WindowAccepted(parts, i) THEN i + GroupSize ELSE i + 1

RECURSIVE ScanWindows(_, _, _)
ScanWindows(parts, i, acc) ==
  IF ~(i + 5 < Len(parts))
    THEN acc
    ELSE ScanWindows(parts, NextCursor(parts, i),
                     IF WindowAccepted(parts, i)
                       THEN Append(acc, WindowRow(parts, i))
                       ELSE acc)

\* the rows one line of page text yields
ScanLine(rawline) ==
  LET line == Strip(rawline)
      parts == Split(line)
  IN IF line = <<>> THEN <<>>
     ELSE IF Len(parts) < GroupSize THEN <<>>
     ELSE IF ~parse_int_ok(parts[1]) THEN <<>>
     ELSE ScanWindows(parts, 0, <<>>)

RECURSIVE ScanLines(_, _)
ScanLines(lines, acc) ==
  IF lines = <<>> THEN acc
  ELSE ScanLines(Tail(lines), acc \o ScanLine(Head(lines)))

\* the rows a page in the tax table yields
ScanText(text) == ScanLines(SplitLines(text), <<>>)

(* --------------------- the resolver: sort and dedup ------------------- *)

RowKey(r) == <<r.income_min, r.income_max>>

\* the row is appended: no ordering
InsertAtEnd(sorted, r) == Append(sorted, r)

RECURSIVE InsertByMinUnstable(_, _)
\* r goes before the rows of the same income_min: ties are reversed
InsertByMinUnstable(sorted, r) ==
  IF sorted = <<>> THEN <<r>>
  ELSE IF Head(sorted).income_min < r.income_min
    THEN <<Head(sorted)>> \o InsertByMinUnstable(Tail(sorted), r)
    ELSE <<r>> \o sorted

RECURSIVE InsertByMin(_, _)
\* r goes after every row with income_min <= r.income_min: the sort is stable
InsertByMin(sorted, r) ==
  IF sorted = <<>> THEN <<r>>
  ELSE IF Head(sorted).income_min <= r.income_min
    THEN <<Head(sorted)>> \o InsertByMin(Tail(sorted), r)
    ELSE <<r>> \o sorted

RECURSIVE SortFrom(_, _)
SortFrom(rows, acc) ==
  IF rows = <<>> THEN acc ELSE SortFrom(Tail(rows), InsertByMin(acc, Head(rows)))

\* results.sort(key=lambda r: r["income_min"])
SortByMin(rows) == SortFrom(rows, <<>>)

RECURSIVE DedupFromByMin(_, _, _)
\* the key is income_min alone
DedupFromByMin(rows, seen, deduped) ==
  IF rows = <<>> THEN deduped
  ELSE IF Head(rows).income_min \in seen
    THEN DedupFromByMin(Tail(rows), seen, deduped)
    ELSE DedupFromByMin(Tail(rows), seen \cup {Head(rows).income_min},
                        Append(deduped, Head(rows)))

RECURSIVE DedupFrom(_, _, _)
DedupFrom(rows, seen, deduped) ==
  IF rows = <<>> THEN deduped
  ELSE IF RowKey(Head(rows)) \in seen
    THEN DedupFrom(Tail(rows), seen, deduped)
    ELSE DedupFrom(Tail(rows), seen \cup {RowKey(Head(rows))},
                   Append(deduped, Head(rows)))

\* the first row of each (income_min, income_max) key
Dedup(rows) == DedupFrom(rows, {}, <<>>)

Resolve(rows) == Dedup(SortByMin(rows))

(* ------------------- re.search on the worksheet cells ----------------- *)

Least(ps) == CHOOSE p \in ps : \A q \in ps : p <= q

DigitOrComma == Digit \cup {","}

\* the group of lit \$\s*([\d,]+) matched at p, for AmountMatchesAt
AmountStart(text, lit, p) == SkipWhile(text, p + Len(lit) + 1, Whitespace)

AmountMatchesAt(text, lit, p) ==
  /\ MatchAt(text, lit \o <<"$">>, p)
  /\ AmountStart(text, lit, p) <= Len(text)
  /\ text[AmountStart(text, lit, p)] \in DigitOrComma

\* the rightmost match, where the leftmost is meant
Greatest(ps) == CHOOSE p \in ps : \A q \in ps : q <= p

SearchAmountLast(text, lit) ==
  LET ps == {p \in 1..Len(text) : AmountMatchesAt(text, lit, p)}
  IN IF ps = {} THEN None
     ELSE LET a == AmountStart(text, lit, Greatest(ps))
              b == SkipWhile(text, a, DigitOrComma)
          IN Some(SubSeq(text, a, b - 1))

\* re.search(lit + r"\$\s*([\d,]+)", text): None, or Some(group 1)
SearchAmount(text, lit) ==
  LET ps == {p \in 1..Len(text) : AmountMatchesAt(text, lit, p)}
  IN IF ps = {} THEN None
     ELSE LET a == AmountStart(text, lit, Least(ps))
              b == SkipWhile(text, a, DigitOrComma)
          IN Some(SubSeq(text, a, b - 1))

\* a float, as the decimal it was written as: num / 10^scale, scale least
RECURSIVE DropTrailingZeros(_)
DropTrailingZeros(ds) ==
  IF ds # <<>> /\ DigitVal(ds[Len(ds)]) = 0
    THEN DropTrailingZeros(SubSeq(ds, 1, Len(ds) - 1))
    ELSE ds

\* float(ip + "." + fp) for digit strings ip (possibly empty) and fp
Float(ip, fp) ==
  LET f == DropTrailingZeros(fp)
  IN [num |-> DigitsValue(ip \o f), scale |-> Len(f)]

ZeroFloat == [num |-> 0, scale |-> 0]

\* \((\d+\.\d+)\) matches at p
RateMatchesAt(text, p) ==
  LET a == p + 1
      b == SkipWhile(text, a, Digit)
      c == SkipWhile(text, b + 1, Digit)
  IN /\ p <= Len(text) /\ text[p] = "("
     /\ b > a
     /\ b <= Len(text) /\ text[b] = "."
     /\ c > b + 1
     /\ c <= Len(text) /\ text[c] = ")"

\* re.search(r"\((\d+\.\d+)\)", text): None, or Some(float(group 1))
SearchRate(text) ==
  LET ps == {p \in 1..Len(text) : RateMatchesAt(text, p)}
  IN IF ps = {} THEN None
     ELSE LET a == Least(ps) + 1
              b == SkipWhile(text, a, Digit)
              c == SkipWhile(text, b + 1, Digit)
          IN Some(Float(SubSeq(text, a, b - 1), SubSeq(text, b + 1, c - 1)))

\* \$\s*([\d,]+\.\d+) matches at p
SubtractionMatchesAt(text, p) ==
  LET a == SkipWhile(text, p + 1, Whitespace)
      b == SkipWhile(text, a, DigitOrComma)
      c == SkipWhile(text, b + 1, Digit)
  IN /\ p <= Len(text) /\ text[p] = "$"
     /\ b > a
     /\ b <= Len(text) /\ text[b] = "."
     /\ c > b + 1

\* float(m.group(1).replace(",", "")) if m else 0.0
SearchSubtraction(text) ==
  LET ps == {p \in 1..Len(text) : SubtractionMatchesAt(text, p)}
  IN IF ps = {} THEN ZeroFloat
     ELSE LET a == SkipWhile(text, Least(ps) + 1, Whitespace)
              b == SkipWhile(text, a, DigitOrComma)
              c == SkipWhile(text, b + 1, Digit)
          IN Float(StripCommas(SubSeq(text, a, b - 1)), SubSeq(text, b + 1, c - 1))

(* ------------------------ the worksheet row fields -------------------- *)

HundredThousandLit == <<"1", "0", "0", ",", "0", "0", "0">>
OverLit == <<"O", "v", "e", "r">>
OverSpaceLit == <<"O", "v", "e", "r", " ">>
NotOverLit == <<"n", "o", "t", " ", "o", "v", "e", "r", " ">>

\* the row filter on the first cell
IsBracketRange(range_text) ==
  Contains(range_text, HundredThousandLit) \/ Contains(range_text, OverLit)

\* int(m.group(1).replace(",", "")) raises ValueError
AmountRaises(m) == m # None /\ ~IntOk(StripCommas(m[1]))

AmountValue(m) == IntValue(StripCommas(m[1]))

\* "Over $X" is read when no upper bound was found
ReadsOver(range_text, max_match) ==
  Contains(range_text, OverLit) /\ max_match = None

\* income_max: the amount after "not over", when there is one
UpperBoundNoneAfterOver(range_text, max_match) ==
  IF max_match = None \/ Contains(range_text, OverLit) THEN None
  ELSE Some(AmountValue(max_match))

UpperBound(range_text, max_match) ==
  IF max_match = None THEN None ELSE Some(AmountValue(max_match))

\* the income bounds of a range text: income_min and income_max are None or
\* Some(int); raises tells that an int() of the code raises ValueError
ParseBounds(range_text) ==
  LET min_match == SearchAmount(range_text, <<>>)
      max_match == SearchAmount(range_text, NotOverLit)
      reads_over == ReadsOver(range_text, max_match)
      over_match == IF reads_over THEN SearchAmount(range_text, OverSpaceLit) ELSE None
  IN IF AmountRaises(min_match) \/ AmountRaises(max_match) \/ AmountRaises(over_match)
       THEN [raises |-> TRUE, income_min |-> None, income_max |-> None]
       ELSE [raises |-> FALSE,
             income_min |-> IF over_match # None THEN Some(AmountValue(over_match))
                            ELSE IF min_match # None THEN Some(AmountValue(min_match))
                            ELSE None,
             income_max |-> UpperBound(range_text, max_match)]

Skip == [kind |-> "skip"]
Raise(msg) == [kind |-> "raise", error |-> msg]
ValueErrorInt == "ValueError: invalid literal for int()"

\* the bracket of a row that passed the filter: range text, rate and
\* subtraction cells
ParseBracket(range_text, rate_cell, sub_cell) ==
  LET rate_match == SearchRate(rate_cell)
      bounds == ParseBounds(range_text)
  IN IF rate_match = None THEN Skip
     ELSE IF bounds.raises THEN Raise(ValueErrorInt)
     ELSE [kind |-> "bracket",
           bracket |-> [income_min |-> bounds.income_min,
                        income_max |-> bounds.income_max,
                        rate |-> rate_match[1],
                        subtraction_amount |-> SearchSubtraction(sub_cell)]]

\* html_scraper.py: one <tr>, cells the stripped texts of its th and td
HtmlWorksheetRow(cells) ==
  IF Len(cells) < 5 THEN Skip
  ELSE IF ~IsBracketRange(cells[1]) THEN Skip
  ELSE ParseBracket(cells[1], cells[3], cells[5])

\* cell or ""
OrEmpty(cell) == IF cell = None THEN <<>> ELSE cell[1]

\* the row with the 5 cells the HTML parser asks for
PdfWorksheetRowFiveCells(row) ==
  IF Len(row) < 5 \/ OrEmpty(row[1]) = <<>> THEN Skip
  ELSE IF ~IsBracketRange(row[1][1]) THEN Skip
  ELSE ParseBracket(row[1][1], OrEmpty(row[3]), OrEmpty(row[5]))

\* pdf_scraper.py: one row of an extracted table, cells None or Some(text)
PdfWorksheetRow(row) ==
  IF row = <<>> \/ OrEmpty(row[1]) = <<>> THEN Skip
  ELSE IF ~IsBracketRange(row[1][1]) THEN Skip
  ELSE ParseBracket(row[1][1],
                    IF Len(row) > 2 THEN OrEmpty(row[3]) ELSE <<>>,
                    IF Len(row) > 4 THEN OrEmpty(row[5]) ELSE <<>>)

\* what the row parser makes of each row of a table.  pdf is TRUE for an
\* extracted PDF table, FALSE for an HTML table
RowResults(rows, pdf) ==
  [k \in 1..Len(rows) |->
     IF pdf THEN PdfWorksheetRow(rows[k]) ELSE HtmlWorksheetRow(rows[k])]

\* the outcome of the loop over the rows, from what each row gives: the
\* first row that raises ends it, else the brackets of the rows are
\* appended in order
LoopOver(rs, brackets) ==
  LET raised == {k \in 1..Len(rs) : rs[k].kind = "raise"}
      kept == SelectSeq(rs, LAMBDA r : r.kind = "bracket")
  IN IF raised # {} THEN rs[Least(raised)]
     ELSE [kind |-> "brackets",
           brackets |-> brackets \o [k \in 1..Len(kept) |-> kept[k].bracket]]

\* the loop over a table's rows, with the brackets appended so far: a
\* raise, or [kind |-> "brackets", ...]
ParseRows(rows, pdf, brackets) ==
  CHOOSE out \in {LoopOver(rs, brackets) :
                    rs \in {RowResults(r, pdf) : r \in {rows}}} : TRUE

(* ------------------------------ common.py ----------------------------- *)

FILING_STATUSES ==
  <<"single", "married_filing_jointly", "married_filing_separately",
    "head_of_household">>

WORKSHEET_SECTION_LABELS ==
  <<<<"S", "e", "c", "t", "i", "o", "n", " ", "A">>,
    <<"S", "e", "c", "t", "i", "o", "n", " ", "B">>,
    <<"S", "e", "c", "t", "i", "o", "n", " ", "C">>,
    <<"S", "e", "c", "t", "i", "o", "n", " ", "D">>>>

(* ---------------------------- html_scraper.py ------------------------- *)

\* An HTML document (soup) is [title, body]: title is None or Some(text),
\* body the elements in document order, each [tag |-> "h2" or "p", text]
\* or [tag |-> "table", rows], a row being the texts of its th and td.

Form1040Lit == <<"1", "0", "4", "0">>

\* 1040\s*\((\d{4})\) matches at p
YearMatchesAt(text, p) ==
  LET a == SkipWhile(text, p + 4, Whitespace)
  IN /\ MatchAt(text, Form1040Lit, p)
     /\ a + 5 <= Len(text)
     /\ text[a] = "("
     /\ \A k \in 1..4 : text[a + k] \in Digit
     /\ text[a + 5] = ")"

\* detect_html_year(soup): None, or Some(year)
detect_html_year(soup) ==
  LET title == IF soup.title = None THEN <<>> ELSE soup.title[1]
      ps == {p \in 1..Len(title) : YearMatchesAt(title, p)}
  IN IF ps = {} THEN None
     ELSE LET a == SkipWhile(title, Least(ps) + 4, Whitespace)
          IN Some(DigitsValue(SubSeq(title, a + 1, a + 4)))

\* scrape_html goes on to parse: html_year != year is false
YearMatchesOrUnknown(html_year, year) == html_year = None \/ html_year = Some(year)

YearMatches(html_year, year) == html_year = Some(year)

\* td.get_text(strip=True) of each cell
CellTexts(row) == [k \in 1..Len(row) |-> Strip(row[k])]

BigTableRows == 100

\* the index in body of the first h2 whose stripped text is "Tax Table"
TaxTableHeadings(body) ==
  {i \in 1..Len(body) : body[i].tag = "h2" /\ Strip(body[i].text) = TaxTableLit}

\* the tables after element h with 100 rows or more
BigTablesAfterAtLeast(body, h) ==
  {j \in (h + 1)..Len(body) :
     body[j].tag = "table" /\ Len(body[j].rows) >= BigTableRows}

\* the tables after element h with more than 100 rows
BigTablesAfter(body, h) ==
  {j \in (h + 1)..Len(body) :
     body[j].tag = "table" /\ Len(body[j].rows) > BigTableRows}

\* int(cell.replace(",", ""))
CellIntOk(cell) == IntOk(StripCommas(cell))

CellInt(cell) == IntValue(StripCommas(cell))

\* one <tr> of the big table: Skip, or the row it yields
HtmlTableRow(cells) ==
  IF Len(cells) < GroupSize THEN Skip
  ELSE IF ~(CellIntOk(cells[1]) /\ CellIntOk(cells[2])) THEN Skip
  ELSE IF ~(\A k \in 3..6 : CellIntOk(cells[k])) THEN Skip
  ELSE [kind |-> "row",
        row |-> [income_min |-> CellInt(cells[1]),
                 income_max |-> CellInt(cells[2]),
                 single |-> CellInt(cells[3]),
                 married_filing_jointly |-> CellInt(cells[4]),
                 married_filing_separately |-> CellInt(cells[5]),
                 head_of_household |-> CellInt(cells[6])]]

\* the rows of the big table that parse, in document order
HtmlTableRows(rows) ==
  LET parsed == [k \in 1..Len(rows) |-> HtmlTableRow(CellTexts(rows[k]))]
      kept == SelectSeq(parsed, LAMBDA r : r.kind = "row")
  IN [k \in 1..Len(kept) |-> kept[k].row]

NoHeadingError == "ValueError: Could not find 'Tax Table' heading"
NoBigTableError == "ValueError: Could not find the large Tax Table"

\* parse_tax_table_html(soup): a raise, or the rows in document order
parse_tax_table_html(soup) ==
  LET hs == TaxTableHeadings(soup.body)
  IN IF hs = {} THEN Raise(NoHeadingError)
     ELSE LET ts == BigTablesAfter(soup.body, Least(hs))
          IN IF ts = {} THEN Raise(NoBigTableError)
             ELSE [kind |-> "rows",
                   rows |-> HtmlTableRows(soup.body[Least(ts)].rows)]

FilingStatusLit == <<"f", "i", "l", "i", "n", "g", " ", "s", "t", "a", "t", "u", "s">>

\* the string filter of soup.find for a section label
IsSectionString(str, label) ==
  Contains(str, label) /\ InLower(FilingStatusLit, str)

\* the element holds a string the filter accepts
HoldsSectionString(el, label) ==
  IF el.tag = "table"
    THEN \E r \in 1..Len(el.rows) : \E c \in 1..Len(el.rows[r]) :
           IsSectionString(el.rows[r][c], label)
    ELSE IsSectionString(el.text, label)

\* soup.find(string=...) walks every string of the document, the string of
\* the <title> (in the head, ahead of the body) included: the places of
\* the strings the filter accepts, 0 for the title and i for body[i]
SectionStrings(soup, label) ==
  {i \in 0..Len(soup.body) :
     IF i = 0
       THEN soup.title # None /\ IsSectionString(soup.title[1], label)
       ELSE HoldsSectionString(soup.body[i], label)}

NoSectionError == "ValueError: Could not find Section"
NoSectionTableError == "ValueError: Could not find table for Section"

\* a section that is not found gives no brackets, and the loop goes on
HtmlSectionLenient(soup, n) ==
  LET label == WORKSHEET_SECTION_LABELS[n]
      es == SectionStrings(soup, label)
      ts == IF es = {} THEN {}
            ELSE {j \in (Least(es) + 1)..Len(soup.body) : soup.body[j].tag = "table"}
  IN IF ts = {} THEN [kind |-> "brackets", brackets |-> <<>>]
     ELSE LET rows == soup.body[Least(ts)].rows
          IN ParseRows([k \in 1..Len(rows) |-> CellTexts(rows[k])], FALSE, <<>>)

\* one iteration of the loop over the sections of
\* parse_computation_worksheet_html: a raise, or [kind |-> "brackets", ...];
\* the table is the first one after the parent of the first string found
HtmlSection(soup, n) ==
  LET label == WORKSHEET_SECTION_LABELS[n]
      es == SectionStrings(soup, label)
  IN IF es = {} THEN Raise(NoSectionError)
     ELSE LET ts == {j \in (Least(es) + 1)..Len(soup.body) : soup.body[j].tag = "table"}
          IN IF ts = {} THEN Raise(NoSectionTableError)
             ELSE LET rows == soup.body[Least(ts)].rows
                  IN ParseRows([k \in 1..Len(rows) |-> CellTexts(rows[k])], FALSE, <<>>)

(* -------------------- pdf_scraper.py: the worksheet ------------------- *)

WorksheetRows == 6
WorksheetRowsLow == 5
WorksheetRowsHigh == 7
WorksheetTables == 4

\* A PDF page is [text, tables]: text is None or Some(text), tables the
\* extracted tables in order, a table its rows, a row its cells, a cell
\* None or Some(text).

\* the tables of 5 to 7 rows, also when 4 tables have 6 rows
WorksheetCandidatesRelaxed(tables) ==
  SelectSeq(tables, LAMBDA t : WorksheetRowsLow <= Len(t) /\ Len(t) <= WorksheetRowsHigh)

\* the candidate tables of a worksheet page
WorksheetCandidates(tables) ==
  LET exact == SelectSeq(tables, LAMBDA t : Len(t) = WorksheetRows)
  IN IF Len(exact) < WorksheetTables
       THEN SelectSeq(tables,
                      LAMBDA t : WorksheetRowsLow <= Len(t) /\ Len(t) <= WorksheetRowsHigh)
       ELSE exact

\* the page is where the worksheet is read, and the page loop breaks
IsWorksheetPage(page) ==
  /\ Contains(TextOf(page), WorksheetLit)
  /\ Len(WorksheetCandidates(page.tables)) >= WorksheetTables

RECURSIVE ParseTables(_, _, _)
\* for filing_status, table in zip(FILING_STATUSES, worksheet_tables[:4]):
\* a raise, or the dict as its items in insertion order
ParseTables(tables, n, results) ==
  IF n > WorksheetTables \/ n > Len(tables)
    THEN [kind |-> "worksheet", results |-> results]
    ELSE LET b == ParseRows(tables[n], TRUE, <<>>)
         IN IF b.kind = "raise" THEN b
            ELSE ParseTables(tables, n + 1,
                             Append(results, [filing_status |-> FILING_STATUSES[n],
                                              brackets |-> b.brackets]))

(* ----------------------------- the documents -------------------------- *)
(* The documents the extraction is run on.  A document is named by a      *)
(* small descriptor; the text the code reads is rendered from it.         *)

RECURSIVE Plain(_)
Plain(n) == IF n < 10 THEN <<DigitChar(n)>> ELSE Plain(n \div 10) \o <<DigitChar(n % 10)>>

ThreeDigits(n) ==
  <<DigitChar(n \div 100), DigitChar((n \div 10) % 10), DigitChar(n % 10)>>

RECURSIVE Fmt(_)
\* an amount as the publication prints it: 103350 is 103,350
Fmt(n) ==
  IF n < 0 THEN <<"-">> \o Fmt(0 - n)
  ELSE IF n < 1000 THEN Plain(n)
  ELSE Fmt(n \div 1000) \o <<",">> \o ThreeDigits(n % 1000)

RECURSIVE Join(_, _)
Join(pieces, sep) ==
  IF pieces = <<>> THEN <<>>
  ELSE IF Len(pieces) = 1 THEN pieces[1]
  ELSE pieces[1] \o sep \o Join(Tail(pieces), sep)

Line(tokens) == Join(tokens, <<" ">>)

Group(a, b, c, d, e, f) == <<Fmt(a), Fmt(b), Fmt(c), Fmt(d), Fmt(e), Fmt(f)>>

TextPage(lines) == [text |-> Some(Join(lines, <<"\n">>)), tables |-> <<>>]

(* worksheet rows: shape is "header", "at_least" (At least $x but not    *)
(* over $y), "over_range" (Over $x but not over $y), "over" (Over $x) or *)
(* "commas" (Over $,); rate in hundredths, sub in cents; cells is the    *)
(* number of cells of the row, has_rate whether the rate is in           *)
(* parentheses                                                           *)

AtLeastText == <<"A", "t", " ", "l", "e", "a", "s", "t", " ", "$">>
ButNotOverText ==
  <<" ", "b", "u", "t", " ", "n", "o", "t", " ", "o", "v", "e", "r", " ", "$">>
OverText == <<"O", "v", "e", "r", " ", "$">>
TaxableIncomeText ==
  <<"T", "a", "x", "a", "b", "l", "e", " ", "i", "n", "c", "o", "m", "e">>

RangeText(d) ==
  CASE d.shape = "at_least" -> AtLeastText \o Fmt(d.x) \o ButNotOverText \o Fmt(d.y)
    [] d.shape = "over_range" -> OverText \o Fmt(d.x) \o ButNotOverText \o Fmt(d.y)
    [] d.shape = "over" -> OverText \o Fmt(d.x)
    [] d.shape = "commas" -> OverText \o <<",">>
    [] OTHER -> TaxableIncomeText

TwoDigits(n) == <<DigitChar((n \div 10) % 10), DigitChar(n % 10)>>

RateText(d) ==
  IF d.shape = "header" THEN <<"(", "b", ")">>
  ELSE IF d.has_rate THEN <<"x", " ", "(", "0", ".">> \o TwoDigits(d.rate) \o <<")">>
  ELSE <<"x", " ", "0", ".">> \o TwoDigits(d.rate)

SubText(d) ==
  IF d.shape = "header" THEN <<"(", "d", ")">>
  ELSE <<"$", " ">> \o Fmt(d.sub \div 100) \o <<".">> \o TwoDigits(d.sub % 100)

RowCells(d) ==
  SubSeq(<<RangeText(d), <<"$">>, RateText(d), <<"$">>, SubText(d), <<"$">>>>,
         1, d.cells)

RowDesc(shape, x, y, rate, sub) ==
  [shape |-> shape, x |-> x, y |-> y, rate |-> rate, sub |-> sub,
   cells |-> 6, has_rate |-> TRUE]

HeaderRow == RowDesc("header", 0, 0, 0, 0)
FirstRow == RowDesc("at_least", 100000, 103350, 22, 660000)
MiddleRow == RowDesc("over_range", 103350, 197300, 24, 866700)
TopRow == RowDesc("over", 626350, 0, 37, 4449375)
LowTopRow == RowDesc("over", 5, 0, 10, 0)
CommasRow == RowDesc("commas", 0, 0, 37, 100)

\* the worksheet tables: the described rows, and rows is the row count of
\* the table (the rest are empty rows)
TableKinds ==
  {"std6", "std5", "std7", "small4", "big8", "notop6", "twotop6", "commas6",
   "short6", "norate6"}

TableDesc(kind) ==
  CASE kind = "std6" -> [data |-> <<HeaderRow, FirstRow, MiddleRow, TopRow>>, rows |-> 6]
    [] kind = "std5" -> [data |-> <<HeaderRow, FirstRow, TopRow>>, rows |-> 5]
    [] kind = "std7" -> [data |-> <<HeaderRow, FirstRow, MiddleRow, TopRow>>, rows |-> 7]
    [] kind = "small4" -> [data |-> <<HeaderRow, FirstRow, TopRow>>, rows |-> 4]
    [] kind = "big8" -> [data |-> <<HeaderRow, FirstRow, MiddleRow, TopRow>>, rows |-> 8]
    [] kind = "notop6" -> [data |-> <<HeaderRow, FirstRow, MiddleRow>>, rows |-> 6]
    [] kind = "twotop6" ->
         [data |-> <<HeaderRow, TopRow, FirstRow, LowTopRow>>, rows |-> 6]
    [] kind = "commas6" -> [data |-> <<HeaderRow, FirstRow, CommasRow>>, rows |-> 6]
    [] kind = "short6" ->
         [data |-> <<HeaderRow, [FirstRow EXCEPT !.cells = 3],
                     [TopRow EXCEPT !.cells = 3]>>, rows |-> 6]
    [] kind = "norate6" ->
         [data |-> <<HeaderRow, [FirstRow EXCEPT !.has_rate = FALSE],
                     [TopRow EXCEPT !.has_rate = FALSE]>>, rows |-> 6]

\* the table as pdfplumber extracts it: cells Some(text), empty rows of None
PdfTable(kind) ==
  LET t == TableDesc(kind)
  IN [r \in 1..t.rows |->
        IF r <= Len(t.data)
          THEN LET cells == RowCells(t.data[r]) IN [c \in 1..Len(cells) |-> Some(cells[c])]
          ELSE <<None, None, None, None, None, None>>]

\* the table as the rows of an HTML <table>
HtmlTable(kind) ==
  LET t == TableDesc(kind)
  IN [r \in 1..t.rows |-> IF r <= Len(t.data) THEN RowCells(t.data[r]) ELSE <<>>]

(* the pages of a PDF *)

TablePageKinds == {"heading", "continued", "noisy", "mention", "worksheet", "both", "blank"}

WorksheetPageKinds ==
  {"ws_std", "ws_three", "ws_relaxed", "ws_odd", "ws_commas", "ws_unmarked", "ws_empty",
   "ws_mixed"}

WorksheetPageTables(kind) ==
  CASE kind = "ws_std" -> <<"std6", "std6", "std6", "std6">>
    [] kind = "ws_three" -> <<"std6", "std6", "std6">>
    [] kind = "ws_relaxed" -> <<"small4", "std6", "std5", "std6", "std7", "big8">>
    [] kind = "ws_odd" -> <<"norate6", "notop6", "twotop6", "short6", "std6">>
    [] kind = "ws_commas" -> <<"std6", "std6", "commas6", "std6">>
    [] kind = "ws_mixed" -> <<"std6", "std5", "notop6", "std7", "std6", "twotop6", "std6">>
    [] kind = "ws_unmarked" -> <<"std6", "std6", "std6", "std6">>
    [] kind = "ws_empty" -> <<>>

SeeTheTaxTableText ==
  <<"s", "e", "e", " ", "t", "h", "e", " ", "T", "a", "x", " ", "T", "a", "b", "l", "e">>

PdfPage(kind) ==
  CASE kind = "heading" ->
         TextPage(<<TaxTableLit, AtButLit,
                    Line(Group(0, 5, 0, 0, 0, 0) \o Group(5, 15, 1, 1, 1, 1))>>)
    [] kind = "continued" ->
         TextPage(<<Line(Group(50000, 50050, 5920, 5526, 5920, 5832)
                         \o Group(53000, 53050, 6420, 6026, 6420, 6332)),
                    <<>>,
                    Line(Group(0, 5, 2, 2, 2, 2)),
                    Line(Group(0, 10, 3, 3, 3, 3))>>)
    [] kind = "noisy" ->
         TextPage(<<Line(<<<<"7">>>> \o Group(5, 15, 9, 9, 9, 9)),
                    Line(<<<<"x">>>> \o Group(15, 25, 2, 2, 2, 2)),
                    Line(<<<<"1">>, <<"2">>, <<"3">>>>),
                    Line(Group(100000, 100050, 17400, 11828, 17400, 15714)),
                    Line(Group(5, 20, 1, 1, 1, 1)),
                    Line(Group(30, 25, 1, 1, 1, 1)),
                    Line(Group(10, 15, -1, 0, 0, 0)),
                    Line(Group(99950, 100000, 17394, 11822, 17394, 15708))>>)
    [] kind = "mention" ->
         TextPage(<<SeeTheTaxTableText, Line(Group(25, 50, 4, 4, 4, 4))>>)
    [] kind = "worksheet" ->
         TextPage(<<WorksheetLit, Line(Group(75, 100, 8, 8, 8, 8))>>)
    [] kind = "both" ->
         TextPage(<<TaxTableLit, YourTaxIsLit, WorksheetLit,
                    Line(Group(15, 25, 2, 2, 2, 2))>>)
    [] kind = "blank" -> [text |-> None, tables |-> <<>>]
    [] kind = "ws_unmarked" ->
         [text |-> Some(TaxableIncomeText),
          tables |-> [n \in 1..4 |-> PdfTable("std6")]]
    [] OTHER ->
         [text |-> Some(WorksheetLit),
          tables |-> LET ts == WorksheetPageTables(kind)
                     IN [n \in 1..Len(ts) |-> PdfTable(ts[n])]]

MaxPages == 3

SeqsUpTo(S, n) == UNION {[1..k -> S] : k \in 0..n}

\* a PDF is the sequence of its pages
PdfDocs ==
  SeqsUpTo(TablePageKinds, MaxPages) \cup SeqsUpTo(WorksheetPageKinds, MaxPages)
    \cup {<<"heading", "continued", "ws_std">>, <<"heading", "ws_three">>}

(* the HTML page *)

UseIfText ==
  <<" ", "-", " ", "U", "s", "e", " ", "i", "f", " ", "y", "o", "u", "r", " ", "f", "i",
    "l", "i", "n", "g", " ", "s", "t", "a", "t", "u", "s", " ", "i", "s", " ">>
UpperText ==
  <<" ", "-", " ", "F", "I", "L", "I", "N", "G", " ", "S", "T", "A", "T", "U", "S", ":", " ">>

TitleKinds ==
  {"y2025", "y2024", "tight2025", "none", "plain", "sr2025", "five", "section2025"}

TitleTail ==
  <<")", " ", "|", " ", "I", "n", "t", "e", "r", "n", "a", "l", " ",
    "R", "e", "v", "e", "n", "u", "e", " ", "S", "e", "r", "v", "i", "c", "e">>

Title(kind) ==
  CASE kind = "y2025" -> Some(<<"1", "0", "4", "0", " ", "(">> \o Plain(2025) \o TitleTail)
    [] kind = "y2024" -> Some(<<"1", "0", "4", "0", " ", "(">> \o Plain(2024) \o TitleTail)
    [] kind = "tight2025" -> Some(<<"1", "0", "4", "0", "(">> \o Plain(2025) \o <<")">>)
    [] kind = "none" -> None
    [] kind = "plain" ->
         Some(<<"I", "n", "s", "t", "r", "u", "c", "t", "i", "o", "n", "s", " ", "f", "o",
                "r", " ", "F", "o", "r", "m", " ", "1", "0", "4", "0">>)
    [] kind = "sr2025" ->
         Some(<<"1", "0", "4", "0", "-", "S", "R", " ", "(">> \o Plain(2025) \o TitleTail)
    [] kind = "five" -> Some(<<"1", "0", "4", "0", " ", "(">> \o Plain(20255) \o TitleTail)
    [] kind = "section2025" ->
         Some(<<"1", "0", "4", "0", "\r", "\n", "(">> \o Plain(2025) \o <<")", " ">>
                \o WORKSHEET_SECTION_LABELS[1] \o UpperText)

\* the year the title of each kind names in the form 1040 (YYYY)
TitleYear(kind) ==
  CASE kind \in {"y2025", "tight2025", "section2025"} -> Some(2025)
    [] kind = "y2024" -> Some(2024)
    [] OTHER -> None

H2(text) == [tag |-> "h2", text |-> text]
P(text) == [tag |-> "p", text |-> text]
TableEl(rows) == [tag |-> "table", rows |-> rows]

Cells(a, b, c, d, e, f) == <<a, b, c, d, e, f>>

\* the rows of the big HTML table, in document order
HtmlDataRows ==
  <<Cells(<<"A", "t", " ", "l", "e", "a", "s", "t">>, <<"B", "u", "t">>,
          <<"S", "i", "n", "g", "l", "e">>, <<"M", "F", "J">>, <<"M", "F", "S">>,
          <<"H", "O", "H">>),
    Group(0, 5, 0, 0, 0, 0),
    Group(5, 15, 1, 1, 1, 1),
    Cells(<<"$", "1", "5">>, <<"$", "2", "5">>, <<"2">>, <<"2">>, <<"2">>, <<"2">>),
    Group(25, 32, 3, 3, 3, 3),
    Group(50, 40, 4, 4, 4, 4),
    Group(75, 100, -3, 5, 5, 5),
    Cells(<<"1", "0", "0">>, <<"1", "2", "5">>, <<"x">>, <<"6">>, <<"6">>, <<"6">>),
    Cells(<<" ", "1", ",", "0", "0", "0">>, <<"1", ",", "0", "2", "5", "\r", "\n">>,
          <<" ", "7">>, <<"7">>, <<"7">>, <<"7">>),
    <<<<"3">>, <<"4">>, <<"5">>>>,
    Group(5, 15, 1, 1, 1, 1)>>

OtherDataRows == <<Group(200, 205, 9, 9, 9, 9)>>

\* a table of n rows: the data rows, then empty rows
PaddedTable(data, n) == TableEl([r \in 1..n |-> IF r <= Len(data) THEN data[r] ELSE <<>>])

TaxPartKinds == {"ok", "no_heading", "hundred", "second", "no_table"}

TaxTablesText == <<"T", "a", "x", " ", "T", "a", "b", "l", "e", "s">>

TaxPart(kind) ==
  CASE kind = "ok" ->
         <<H2(<<" ">> \o TaxTableLit \o <<"\n">>), PaddedTable(OtherDataRows, 3),
           PaddedTable(HtmlDataRows, BigTableRows + 1)>>
    [] kind = "no_heading" ->
         <<H2(TaxTablesText), P(TaxTableLit), PaddedTable(HtmlDataRows, BigTableRows + 1)>>
    [] kind = "hundred" -> <<H2(TaxTableLit), PaddedTable(HtmlDataRows, BigTableRows)>>
    [] kind = "second" ->
         <<H2(TaxTablesText), PaddedTable(OtherDataRows, BigTableRows + 1),
           H2(TaxTableLit), PaddedTable(OtherDataRows, BigTableRows),
           PaddedTable(HtmlDataRows, BigTableRows + 2), H2(TaxTableLit),
           PaddedTable(OtherDataRows, BigTableRows + 1)>>
    [] kind = "no_table" -> <<H2(TaxTableLit)>>

SectionText(n) == WORKSHEET_SECTION_LABELS[n] \o UseIfText

Section(n, table) == <<P(SectionText(n)), TableEl(HtmlTable(table))>>

WorksheetPartKinds ==
  {"ok", "upper", "missing_a", "missing_c", "no_table_d", "odd", "commas"}

WorksheetPart(kind) ==
  CASE kind = "ok" ->
         Section(1, "std6") \o Section(2, "std6") \o Section(3, "std6")
           \o Section(4, "std6")
    [] kind = "upper" ->
         <<P(WORKSHEET_SECTION_LABELS[1] \o UpperText), TableEl(HtmlTable("std5"))>>
           \o Section(2, "std6") \o Section(3, "std6") \o Section(4, "std6")
    [] kind = "missing_a" ->
         <<P(WORKSHEET_SECTION_LABELS[1])>> \o Section(2, "std6") \o Section(3, "std6")
           \o Section(4, "std6")
    [] kind = "missing_c" ->
         Section(1, "std6") \o Section(2, "std6") \o Section(4, "std6")
    [] kind = "no_table_d" ->
         Section(1, "std6") \o Section(2, "std6") \o Section(3, "std6")
           \o <<P(SectionText(4))>>
    [] kind = "odd" ->
         Section(1, "norate6") \o Section(2, "notop6") \o Section(3, "twotop6")
           \o Section(4, "short6")
    [] kind = "commas" ->
         Section(1, "std6") \o Section(2, "commas6") \o Section(3, "std6")
           \o Section(4, "std6")

HtmlDocs == [title : TitleKinds, tax : TaxPartKinds, worksheet : WorksheetPartKinds]

\* the document of a descriptor
Soup(d) == [title |-> Title(d.title), body |-> TaxPart(d.tax) \o WorksheetPart(d.worksheet)]

TAX_YEARS == {2023, 2024, 2025}

\* the years of URLS in scrape.py
URLS == {2025}

(* ---------------------------- the scraper ----------------------------- *)

VARIABLES
  pc,            \* where the run is
  year,          \* None, or Some(the requested year)
  soup,          \* None, or Some(the descriptor of the fetched HTML page)
  pdf,           \* the pages of the opened PDF
  html_year,     \* detect_html_year(soup)
  page_i,        \* the pages the current loop over pdf.pages has visited
  in_tax_table,  \* parse_tax_table_pdf's flag
  results,       \* parse_tax_table_pdf's accumulated rows
  tax_table,     \* None, or Some(the rows the tax-table parser returned)
  sec_i,         \* the sections parse_computation_worksheet_html has read
  ws_results,    \* its results so far, as the dict's items
  worksheet,     \* None, or Some(the items of the dict the parser returned)
  tax_csv,       \* None, or Some(the rows written to tax_table.csv)
  worksheet_csv, \* None, or Some(the items written to tax_computation_worksheet.csv)
  error,         \* None, or Some(the exception that ended the run)
  ret,           \* None, or Some(the value scrape_html returned)
  sample,        \* None, or Some(the input given to a parser run on its own)
  parsed,        \* None, or Some(what the HTML and the PDF row parser made of it)
  scan,          \* None, or Some(the windowed scan of one line: parts, i, rows, steps)
  entry          \* None, or Some(the entry point that runs)

vars ==
  <<pc, year, soup, pdf, html_year, page_i, in_tax_table, results, tax_table,
    sec_i, ws_results, worksheet, tax_csv, worksheet_csv, error, ret, sample, parsed,
    scan, entry>>

Init ==
  /\ pc = "idle"
  /\ year = None
  /\ soup = None
  /\ pdf = <<>>
  /\ html_year = None
  /\ page_i = 0
  /\ in_tax_table = FALSE
  /\ results = <<>>
  /\ tax_table = None
  /\ sec_i = 0
  /\ ws_results = <<>>
  /\ worksheet = None
  /\ tax_csv = None
  /\ worksheet_csv = None
  /\ error = None
  /\ ret = None
  /\ sample = None
  /\ parsed = None
  /\ scan = None
  /\ entry = None

\* scrape_html(year, base_dir): the page is fetched
ScrapeHtml ==
  /\ pc = "idle"
  /\ \E d \in HtmlDocs, y \in TAX_YEARS :
       /\ soup' = Some(d)
       /\ year' = Some(y)
  /\ entry' = Some("scrape_html")
  /\ pc' = "html_fetched"
  /\ UNCHANGED <<pdf, html_year, page_i, in_tax_table, results, tax_table, sec_i,
                 ws_results, worksheet, tax_csv, worksheet_csv, error, ret, sample,
                 parsed, scan>>

\* main() of scrape.py: soup = fetch_soup(url) for the one year of URLS;
\* the year of the page is not read, and parse_tax_table (the code of
\* parse_tax_table_html) comes next
Main ==
  /\ pc = "idle"
  /\ \E d \in HtmlDocs, y \in URLS :
       /\ soup' = Some(d)
       /\ year' = Some(y)
  /\ entry' = Some("main")
  /\ pc' = "html_tax_table"
  /\ UNCHANGED <<pdf, html_year, page_i, in_tax_table, results, tax_table, sec_i,
                 ws_results, worksheet, tax_csv, worksheet_csv, error, ret, sample,
                 parsed, scan>>

\* html_year = detect_html_year(soup); if html_year != year: return False
DetectYear ==
  /\ pc = "html_fetched"
  /\ html_year' = detect_html_year(Soup(soup[1]))
  /\ IF YearMatches(html_year', year[1])
       THEN pc' = "html_tax_table" /\ ret' = ret
       ELSE pc' = "html_done" /\ ret' = Some(FALSE)
  /\ UNCHANGED <<year, soup, pdf, page_i, in_tax_table, results, tax_table, sec_i,
                 ws_results, worksheet, tax_csv, worksheet_csv, error, sample,
                 parsed, scan, entry>>

\* tax_table = parse_tax_table_html(soup)
ParseTaxTableHtml ==
  /\ pc = "html_tax_table"
  /\ \E r \in {parse_tax_table_html(Soup(soup[1]))} :
        IF r.kind = "raise"
          THEN pc' = "raised" /\ error' = Some(r.error) /\ tax_table' = tax_table
          ELSE pc' = "html_write_tax_table" /\ error' = error /\ tax_table' = Some(r.rows)
  /\ UNCHANGED <<year, soup, pdf, html_year, page_i, in_tax_table, results, sec_i,
                 ws_results, worksheet, tax_csv, worksheet_csv, ret, sample,
                 parsed, scan, entry>>

\* write_tax_table_csv(tax_table, ...), in scrape_html
WriteTaxTableHtml ==
  /\ pc = "html_write_tax_table"
  /\ tax_csv' = tax_table
  /\ pc' = "html_worksheet"
  /\ sec_i' = 0
  /\ ws_results' = <<>>
  /\ UNCHANGED <<year, soup, pdf, html_year, page_i, in_tax_table, results, tax_table,
                 worksheet, worksheet_csv, error, ret, sample,
                 parsed, scan, entry>>

\* one section of parse_computation_worksheet_html; the fourth returns
HtmlWorksheetSection ==
  /\ pc = "html_worksheet"
  /\ sec_i < Len(WORKSHEET_SECTION_LABELS)
  /\ \E r \in {HtmlSection(Soup(soup[1]), sec_i + 1)} :
     LET items == Append(ws_results, [filing_status |-> FILING_STATUSES[sec_i + 1],
                                      brackets |-> r.brackets])
     IN IF r.kind = "raise"
          THEN /\ pc' = "raised"
               /\ error' = Some(r.error)
               /\ UNCHANGED <<sec_i, ws_results, worksheet>>
          ELSE /\ sec_i' = sec_i + 1
               /\ ws_results' = items
               /\ error' = error
               /\ IF sec_i' = Len(WORKSHEET_SECTION_LABELS)
                    THEN pc' = "html_write_worksheet" /\ worksheet' = Some(items)
                    ELSE pc' = pc /\ worksheet' = worksheet
  /\ UNCHANGED <<year, soup, pdf, html_year, page_i, in_tax_table, results, tax_table,
                 tax_csv, worksheet_csv, ret, sample,
                 parsed, scan, entry>>

\* write_computation_worksheet_csv(worksheet, ...); scrape_html returns
\* True, main returns nothing
WriteWorksheetHtml ==
  /\ pc = "html_write_worksheet"
  /\ worksheet_csv' = worksheet
  /\ ret' = IF entry = Some("scrape_html") THEN Some(TRUE) ELSE ret
  /\ pc' = "html_done"
  /\ UNCHANGED <<year, soup, pdf, html_year, page_i, in_tax_table, results, tax_table,
                 sec_i, ws_results, worksheet, tax_csv, error, sample,
                 parsed, scan, entry>>

\* scrape_pdf(year, base_dir): the PDF is downloaded and opened, and
\* parse_tax_table_pdf starts.  The year only names the URL and the
\* directory of the output, so it is not kept.  main() of scrape_pdf.py
\* runs the same steps on the PDF of its URLS.
ScrapePdf ==
  /\ pc = "idle"
  /\ \E d \in PdfDocs : pdf' = d
  /\ entry' = Some("scrape_pdf")
  /\ pc' = "pdf_tax_table"
  /\ page_i' = 0
  /\ in_tax_table' = FALSE
  /\ results' = <<>>
  /\ UNCHANGED <<year, soup, html_year, tax_table, sec_i, ws_results, worksheet,
                 tax_csv, worksheet_csv, error, ret, sample,
                 parsed, scan>>

\* one page of the loop of parse_tax_table_pdf
PdfTablePage ==
  /\ pc = "pdf_tax_table"
  /\ page_i < Len(pdf)
  /\ \E text \in {TextOf(PdfPage(pdf[page_i + 1]))} :
        /\ in_tax_table' = PageTransition(in_tax_table, text)
        /\ results' = IF in_tax_table' THEN results \o ScanText(text) ELSE results
  /\ page_i' = page_i + 1
  /\ UNCHANGED <<pc, year, soup, pdf, html_year, tax_table, sec_i, ws_results,
                 worksheet, tax_csv, worksheet_csv, error, ret, sample,
                 parsed, scan, entry>>

\* after the last page: results.sort(...) in place, dedup, return deduped
PdfTableResolve ==
  /\ pc = "pdf_tax_table"
  /\ page_i = Len(pdf)
  /\ results' = SortByMin(results)
  /\ tax_table' = Some(Dedup(results'))
  /\ pc' = "pdf_write_tax_table"
  /\ UNCHANGED <<year, soup, pdf, html_year, page_i, in_tax_table, sec_i,
                 ws_results, worksheet, tax_csv, worksheet_csv, error, ret, sample,
                 parsed, scan, entry>>

\* write_tax_table_csv(tax_table, ...), in scrape_pdf; then
\* parse_computation_worksheet_pdf starts
WriteTaxTablePdf ==
  /\ pc = "pdf_write_tax_table"
  /\ tax_csv' = tax_table
  /\ pc' = "pdf_worksheet"
  /\ page_i' = 0
  /\ UNCHANGED <<year, soup, pdf, html_year, in_tax_table, results, tax_table, sec_i,
                 ws_results, worksheet, worksheet_csv, error, ret, sample,
                 parsed, scan, entry>>

\* one page of the loop of parse_computation_worksheet_pdf: continue, or
\* the four tables are parsed, break, return results
PdfWorksheetPage ==
  /\ pc = "pdf_worksheet"
  /\ page_i < Len(pdf)
  /\ \E page \in {PdfPage(pdf[page_i + 1])} :
        IF ~IsWorksheetPage(page)
          THEN /\ page_i' = page_i + 1
               /\ UNCHANGED <<pc, worksheet, error>>
          ELSE /\ page_i' = page_i
               /\ \E r \in {ParseTables(WorksheetCandidates(page.tables), 1, <<>>)} :
                     IF r.kind = "raise"
                       THEN pc' = "raised" /\ error' = Some(r.error) /\ worksheet' = worksheet
                       ELSE /\ pc' = "pdf_write_worksheet"
                            /\ error' = error
                            /\ worksheet' = Some(r.results)
  /\ UNCHANGED <<year, soup, pdf, html_year, in_tax_table, results, tax_table, sec_i,
                 ws_results, tax_csv, worksheet_csv, ret, sample,
                 parsed, scan, entry>>

\* the loop ends with no page read: return results, the empty dict
PdfWorksheetEnd ==
  /\ pc = "pdf_worksheet"
  /\ page_i = Len(pdf)
  /\ worksheet' = Some(<<>>)
  /\ pc' = "pdf_write_worksheet"
  /\ UNCHANGED <<year, soup, pdf, html_year, page_i, in_tax_table, results, tax_table,
                 sec_i, ws_results, tax_csv, worksheet_csv, error, ret, sample,
                 parsed, scan, entry>>

\* write_computation_worksheet_csv(worksheet, ...), in scrape_pdf
WriteWorksheetPdf ==
  /\ pc = "pdf_write_worksheet"
  /\ worksheet_csv' = worksheet
  /\ pc' = "pdf_done"
  /\ UNCHANGED <<year, soup, pdf, html_year, page_i, in_tax_table, results, tax_table,
                 sec_i, ws_results, worksheet, tax_csv, error, ret, sample,
                 parsed, scan, entry>>

Next ==
  \/ ScrapeHtml
  \/ Main
  \/ DetectYear
  \/ ParseTaxTableHtml
  \/ WriteTaxTableHtml
  \/ HtmlWorksheetSection
  \/ WriteWorksheetHtml
  \/ ScrapePdf
  \/ PdfTablePage
  \/ PdfTableResolve
  \/ WriteTaxTablePdf
  \/ PdfWorksheetPage
  \/ PdfWorksheetEnd
  \/ WriteWorksheetPdf

Spec == Init /\ [][Next]_vars

(* --------------------- the row parsers on their own ------------------- *)

Amounts == {0, 5, 999, 1000, 100000, 103350, 626350}

SampleRows ==
  [shape : {"header", "at_least", "over_range", "over", "commas"},
   x : Amounts, y : Amounts, rate : {22}, sub : {660000},
   cells : 0..6, has_rate : BOOLEAN]

\* the row as the PDF table holds it
PdfCells(d) == LET cells == RowCells(d) IN [c \in 1..Len(cells) |-> Some(cells[c])]

PickRow ==
  /\ pc = "idle"
  /\ \E d \in SampleRows : sample' = Some(d)
  /\ pc' = "row"
  /\ UNCHANGED <<year, soup, pdf, html_year, page_i, in_tax_table, results, tax_table,
                 sec_i, ws_results, worksheet, tax_csv, worksheet_csv, error, ret,
                 parsed, scan, entry>>

\* the row goes through the row parser of each path
ParseRow ==
  /\ pc = "row"
  /\ parsed' = Some([html |-> HtmlWorksheetRow(CellTexts(RowCells(sample[1]))),
                     pdf |-> PdfWorksheetRow(PdfCells(sample[1]))])
  /\ pc' = "row_done"
  /\ UNCHANGED <<year, soup, pdf, html_year, page_i, in_tax_table, results, tax_table,
                 sec_i, ws_results, worksheet, tax_csv, worksheet_csv, error, ret,
                 sample, scan, entry>>

NextRow == PickRow \/ ParseRow

SpecRow == Init /\ [][NextRow]_vars

(* ------------------------ the resolver on its own --------------------- *)

MaxRows == 4

SampleRow(income_min, income_max, tax) ==
  [income_min |-> income_min, income_max |-> income_max, single |-> tax,
   married_filing_jointly |-> tax, married_filing_separately |-> tax,
   head_of_household |-> tax]

\* rows that tie on income_min, rows of one key and different amounts
SampleTaxRows ==
  {SampleRow(0, 5, 1), SampleRow(0, 5, 2), SampleRow(0, 10, 1), SampleRow(5, 10, 1)}

PickRows ==
  /\ pc = "idle"
  /\ \E rows \in SeqsUpTo(SampleTaxRows, MaxRows) :
       /\ results' = rows
       /\ sample' = Some(rows)
  /\ pc' = "rows"
  /\ UNCHANGED <<year, soup, pdf, html_year, page_i, in_tax_table, tax_table,
                 sec_i, ws_results, worksheet, tax_csv, worksheet_csv, error, ret,
                 parsed, scan, entry>>

\* the sort of results in place and the dedup at the end of
\* parse_tax_table_pdf
ResolveRows ==
  /\ pc = "rows"
  /\ results' = SortByMin(results)
  /\ tax_table' = Some(Dedup(results'))
  /\ pc' = "rows_done"
  /\ UNCHANGED <<year, soup, pdf, html_year, page_i, in_tax_table,
                 sec_i, ws_results, worksheet, tax_csv, worksheet_csv, error, ret,
                 sample, parsed, scan, entry>>

NextResolve == PickRows \/ ResolveRows

SpecResolve == Init /\ [][NextResolve]_vars

(* ---------------------- the windowed scan on its own ------------------ *)

\* A token is written as an integer, [int |-> TRUE, n |-> the integer], or
\* as a word
IntTok(n) == [int |-> TRUE, n |-> n]
WordTok == [int |-> FALSE, n |-> 0]

GroupToks(a, b, c, d, e, f) ==
  <<IntTok(a), IntTok(b), IntTok(c), IntTok(d), IntTok(e), IntTok(f)>>

\* the token as the page text holds it
TokText(t) == IF t.int THEN Fmt(t.n) ELSE <<"x">>

SampleGroups ==
  {GroupToks(50000, 50050, 5920, 5526, 5920, 5832),
   GroupToks(53000, 53050, 6420, 6026, 6420, 6332),
   GroupToks(0, 5, 0, 0, 0, 0),
   GroupToks(99950, 100000, 17394, 11822, 17394, 15708),
   GroupToks(100000, 100050, 17400, 11828, 17400, 15714),
   GroupToks(5, 20, 0, 5, 10, 15),
   GroupToks(30, 25, 1, 1, 1, 1),
   GroupToks(-5, 0, 0, 0, 0, 0),
   <<IntTok(5), WordTok, IntTok(1), IntTok(1), IntTok(1), IntTok(1)>>,
   <<IntTok(0), IntTok(5), IntTok(0), WordTok, IntTok(0), IntTok(0)>>}

\* a line: tokens ahead of a group, a group, a token in between, a group;
\* or a line of fewer than 6 tokens
SampleLines ==
  {pre \o g1 \o mid \o g2 :
     pre \in {<<>>, <<IntTok(7)>>, <<WordTok>>},
     g1 \in SampleGroups,
     mid \in {<<>>, <<IntTok(7)>>},
     g2 \in SampleGroups \cup {<<>>}}
    \cup {<<>>, <<WordTok>>, <<IntTok(0), IntTok(5), IntTok(0), IntTok(0), IntTok(0)>>}

\* parts = line.split() of one line: the line is passed over when it has
\* fewer than 6 tokens or its first token is no integer; else i = 0 ahead
\* of the while loop
PickLine ==
  /\ pc = "idle"
  /\ \E toks \in SampleLines :
       \E parts \in {[k \in 1..Len(toks) |-> TokText(toks[k])]} :
          IF Len(parts) < GroupSize \/ ~parse_int_ok(parts[1])
            THEN /\ scan' = Some([toks |-> toks, parts |-> parts, rows |-> <<>>,
                                  steps |-> <<>>])
                 /\ pc' = "scan_skipped"
            ELSE /\ scan' = Some([toks |-> toks, parts |-> parts, i |-> 0,
                                  rows |-> <<>>, steps |-> <<>>])
                 /\ pc' = "scan"
  /\ UNCHANGED <<year, soup, pdf, html_year, page_i, in_tax_table, results, tax_table,
                 sec_i, ws_results, worksheet, tax_csv, worksheet_csv, error, ret,
                 sample, parsed, entry>>

\* one iteration of while i + 5 < len(parts); steps records the cursor and
\* whether a row was appended
ScanWindow ==
  /\ pc = "scan"
  /\ scan[1].i + 5 < Len(scan[1].parts)
  /\ \E accepted \in {WindowAccepted(scan[1].parts, scan[1].i)} :
       scan' = Some([scan[1] EXCEPT
                       !.i = NextCursor(scan[1].parts, scan[1].i),
                       !.rows = IF accepted
                                  THEN Append(@, WindowRow(scan[1].parts, scan[1].i))
                                  ELSE @,
                       !.steps = Append(@, [at |-> scan[1].i, emitted |-> accepted])])
  /\ UNCHANGED <<pc, year, soup, pdf, html_year, page_i, in_tax_table, results,
                 tax_table, sec_i, ws_results, worksheet, tax_csv, worksheet_csv,
                 error, ret, sample, parsed, entry>>

\* the loop condition is false
ScanEnd ==
  /\ pc = "scan"
  /\ ~(scan[1].i + 5 < Len(scan[1].parts))
  /\ pc' = "scan_done"
  /\ UNCHANGED <<year, soup, pdf, html_year, page_i, in_tax_table, results, tax_table,
                 sec_i, ws_results, worksheet, tax_csv, worksheet_csv, error, ret,
                 sample, parsed, scan, entry>>

NextScan == PickLine \/ ScanWindow \/ ScanEnd

SpecScan == Init /\ [][NextScan]_vars

(* ------------------------------ the claims ---------------------------- *)

OnHtml == soup # None

OnPdf ==
  /\ soup = None
  /\ pc \in {"pdf_tax_table", "pdf_write_tax_table", "pdf_worksheet",
             "pdf_write_worksheet", "pdf_done", "raised"}

Range(seq) == {seq[k] : k \in 1..Len(seq)}

\* the tax-table rows accepted so far: accumulated or returned
AcceptedRows == Range(results) \cup (IF tax_table = None THEN {} ELSE Range(tax_table[1]))

Width(r) == r.income_max - r.income_min

TaxFields(r) ==
  {r.single, r.married_filing_jointly, r.married_filing_separately, r.head_of_household}

\* the pages written with "Tax Table" and "Your tax is" or "At But"
HeadingKinds == {"heading", "both"}

\* the pages written with "Tax Computation Worksheet"
WorksheetTextKinds == {"worksheet", "both"} \cup (WorksheetPageKinds \ {"ws_unmarked"})

InTableScan == soup = None /\ pc = "pdf_tax_table"

\* page k is a page with the worksheet text and no heading, or follows
\* one with no heading page in between
Closed(k) ==
  \E j \in 1..k :
    /\ pdf[j] \in WorksheetTextKinds \ HeadingKinds
    /\ \A m \in (j + 1)..k : pdf[m] \notin HeadingKinds

\* page k is a heading page, or follows one with no page of the worksheet
\* text alone in between
Open(k) ==
  \E j \in 1..k :
    /\ pdf[j] \in HeadingKinds
    /\ \A m \in (j + 1)..k : pdf[m] \notin WorksheetTextKinds \ HeadingKinds

PageRows(k) == ScanText(TextOf(PdfPage(pdf[k])))

RECURSIVE SegmentedRows(_)
\* the rows of the pages up to k that are open
SegmentedRows(k) ==
  IF k = 0 THEN <<>>
  ELSE SegmentedRows(k - 1) \o (IF Open(k) THEN PageRows(k) ELSE <<>>)

\* the rows of the PDF in the order parse_tax_table_pdf accumulated them
Accumulated == SegmentedRows(Len(pdf))

\* C1, as stated: every accepted tax-table row of either path with
\* income_max <= 100000 has a width of 5, 10, 25 or 50.
C1_WidthOnBothPaths ==
  \A r \in AcceptedRows : r.income_max <= 100000 => Width(r) \in {5, 10, 25, 50}

\* C1, amended: every tax-table row the PDF path accepts has a width of 5,
\* 10, 25 or 50, income_max <= 100000 and income_min >= 0.
C1_PdfWidth ==
  OnPdf =>
    \A r \in AcceptedRows :
      Width(r) \in {5, 10, 25, 50} /\ r.income_max <= 100000 /\ r.income_min >= 0

\* the PDF path returned rows, one of them ending at the threshold, after
\* windows of other widths went by
C1_Witness ==
  /\ OnPdf
  /\ tax_table # None
  /\ "noisy" \in Range(pdf)
  /\ \E r \in Range(tax_table[1]) : r.income_max = 100000

StrictlyIncreasing(rows) ==
  \A k \in 1..(Len(rows) - 1) : rows[k].income_min < rows[k + 1].income_min

NonDecreasing(rows) ==
  \A k \in 1..(Len(rows) - 1) : rows[k].income_min <= rows[k + 1].income_min

DistinctKeys(rows) ==
  \A j, k \in 1..Len(rows) : j # k => RowKey(rows[j]) # RowKey(rows[k])

\* C2, as stated: the rows the PDF extraction returns are strictly
\* increasing in income_min, whatever the segmenter accumulated.
C2_StrictlyIncreasing == (OnPdf /\ tax_table # None) => StrictlyIncreasing(tax_table[1])

\* C2, amended: the rows the PDF extraction returns are non-decreasing in
\* income_min and no two of them have the same (income_min, income_max).
C2_SortedDistinctKeys ==
  (OnPdf /\ tax_table # None) =>
    NonDecreasing(tax_table[1]) /\ DistinctKeys(tax_table[1])

\* the PDF path returned two rows of the same income_min, out of rows that
\* were accumulated out of order and with a repeated key
C2_Witness ==
  /\ OnPdf
  /\ tax_table # None
  /\ ~NonDecreasing(Accumulated)
  /\ ~DistinctKeys(Accumulated)
  /\ results = SortByMin(Accumulated)
  /\ \E k \in 1..(Len(tax_table[1]) - 1) :
       tax_table[1][k].income_min = tax_table[1][k + 1].income_min

\* C3, as stated: every accepted tax-table row of either path has
\* income_max > income_min and four non-negative tax amounts.
C3_OrderedNonNegative ==
  \A r \in AcceptedRows : r.income_max > r.income_min /\ \A t \in TaxFields(r) : t >= 0

RowFields ==
  {"income_min", "income_max", "single", "married_filing_jointly",
   "married_filing_separately", "head_of_household"}

\* C3, amended: every accepted tax-table row has its six fields, all
\* integers; on the PDF path income_max > income_min and income_min >= 0.
C3_FieldsPresent ==
  \A r \in AcceptedRows :
    /\ DOMAIN r = RowFields
    /\ \A f \in RowFields : r[f] \in Int
    /\ OnPdf => (r.income_max > r.income_min /\ r.income_min >= 0)

\* the PDF path accepted a row with a negative tax amount, on a page where
\* a window with income_max < income_min went by
C3_Witness ==
  /\ OnPdf
  /\ "noisy" \in Range(pdf)
  /\ \E r \in AcceptedRows : \E t \in TaxFields(r) : t < 0

\* the text of some page holds "Tax Computation Worksheet"
SeesWorksheetText ==
  \E k \in 1..Len(pdf) : Contains(TextOf(PdfPage(pdf[k])), WorksheetLit)

\* no page has 4 tables of 6 rows, nor 4 tables of 5 to 7 rows
NoQualifyingPage ==
  \A k \in 1..Len(pdf) :
    LET tables == PdfPage(pdf[k]).tables
    IN /\ Cardinality({n \in 1..Len(tables) : Len(tables[n]) = 6}) < 4
       /\ Cardinality({n \in 1..Len(tables) : Len(tables[n]) \in 5..7}) < 4

\* C4: when a page holds "Tax Computation Worksheet" and no page has 4
\* qualifying tables, parse_computation_worksheet_pdf returns nothing (it
\* reports a structural failure) and no worksheet file is written.
C4_StructuralFailure ==
  (OnPdf /\ SeesWorksheetText /\ NoQualifyingPage) =>
    (worksheet = None /\ worksheet_csv = None)

\* the worksheets extracted so far: returned, or the HTML loop's results
Worksheets ==
  {ws_results} \cup (IF worksheet = None THEN {} ELSE {worksheet[1]})

Unbounded(brackets) == {k \in 1..Len(brackets) : brackets[k].income_max = None}

\* the bracket at k is last when the brackets are sorted by income_min
LastByMin(brackets, k) ==
  \A j \in 1..Len(brackets) :
    j # k => /\ brackets[j].income_min # None
             /\ brackets[k].income_min # None
             /\ brackets[j].income_min[1] < brackets[k].income_min[1]

\* C5, as stated: in every worksheet result each filing status has exactly
\* one bracket without income_max, the last one by income_min.
C5_OneTopBracket ==
  worksheet # None =>
    \A n \in 1..Len(worksheet[1]) :
      LET brackets == worksheet[1][n].brackets
      IN /\ Cardinality(Unbounded(brackets)) = 1
         /\ \A k \in Unbounded(brackets) : LastByMin(brackets, k)

\* the rows of a described table that yield a bracket: not the header, the
\* rate in parentheses, and on the HTML path at least 5 cells
Yields(d, html) ==
  /\ d.shape \in {"at_least", "over_range", "over"}
  /\ d.has_rate
  /\ html => d.cells >= 5

\* the bounds the rows of a described table are written with; "other" is
\* a table of the tax-table part, which has no bracket row
WrittenBounds(kind, html) ==
  LET rows == IF kind = "other" THEN <<>>
              ELSE SelectSeq(TableDesc(kind).data, LAMBDA d : Yields(d, html))
  IN [k \in 1..Len(rows) |->
        [income_min |-> Some(rows[k].x),
         income_max |-> IF rows[k].shape = "over" THEN None ELSE Some(rows[k].y)]]

Bounds(brackets) ==
  [k \in 1..Len(brackets) |->
     [income_min |-> brackets[k].income_min, income_max |-> brackets[k].income_max]]

\* the title holds the label of section A and "FILING STATUS"
TitleNamesSectionA(d) == d.title = "section2025"

\* the tables after the paragraphs of the sections, of the sections A..D
\* that come ahead of the first one with no paragraph or no table
BodyTables(kind) ==
  CASE kind = "ok" -> <<"std6", "std6", "std6", "std6">>
    [] kind = "upper" -> <<"std5", "std6", "std6", "std6">>
    [] kind = "odd" -> <<"norate6", "notop6", "twotop6", "short6">>
    [] kind = "commas" -> <<"std6", "commas6", "std6", "std6">>
    [] kind = "missing_a" -> <<>>
    [] kind = "missing_c" -> <<"std6", "std6">>
    [] kind = "no_table_d" -> <<"std6", "std6", "std6">>

\* the tables read for the sections A to D of an HTML page, as far as
\* they are found: with the label of section A in the title, the table
\* read for section A is the first table of the page
SectionTables(d) ==
  IF ~TitleNamesSectionA(d) THEN BodyTables(d.worksheet)
  ELSE IF d.worksheet = "missing_a" THEN <<"other", "std6", "std6", "std6">>
  ELSE <<"other">> \o Tail(BodyTables(d.worksheet))

\* the four tables read on each PDF page where the worksheet is read
ReadTables(kind) ==
  CASE kind = "ws_std" -> <<"std6", "std6", "std6", "std6">>
    [] kind = "ws_relaxed" -> <<"std6", "std5", "std6", "std7">>
    [] kind = "ws_odd" -> <<"norate6", "notop6", "twotop6", "short6">>
    [] kind = "ws_commas" -> <<"std6", "std6", "commas6", "std6">>
    [] kind = "ws_mixed" -> <<"std6", "notop6", "std6", "twotop6">>

\* the tables behind the items of a worksheet of this run
SourceTables ==
  IF OnHtml THEN SectionTables(soup[1]) ELSE ReadTables(pdf[page_i + 1])

\* C5, amended: in every worksheet result each filing status has the
\* bracket rows of the table read for it, in the order of the table (on
\* the HTML path the first table after the first string, the title
\* included, with its label and "filing status"), and the brackets without
\* income_max are those of the rows written "Over $X" with no upper bound:
\* none, one or several, wherever they stand.
C5_TopBracketsAsWritten ==
  \A w \in Worksheets :
    \A n \in 1..Len(w) :
      /\ w[n].filing_status = FILING_STATUSES[n]
      /\ Bounds(w[n].brackets) = WrittenBounds(SourceTables[n], OnHtml)

\* a worksheet was returned where one filing status has no bracket without
\* income_max and another has two, the first of them not last
C5_Witness ==
  /\ worksheet # None
  /\ \E n \in 1..Len(worksheet[1]) :
       Len(worksheet[1][n].brackets) > 0 /\ Unbounded(worksheet[1][n].brackets) = {}
  /\ \E n \in 1..Len(worksheet[1]) : 1 \in Unbounded(worksheet[1][n].brackets)
                                     /\ Cardinality(Unbounded(worksheet[1][n].brackets)) = 2

\* scrape_html has read the year of the page
Detected == entry = Some("scrape_html") /\ pc # "html_fetched"

NothingParsedOrWritten ==
  /\ tax_table = None
  /\ worksheet = None
  /\ ws_results = <<>>
  /\ tax_csv = None
  /\ worksheet_csv = None

\* C6: scrape_html returns False, having parsed and written nothing and
\* raised nothing, whenever the year of the title is not the requested
\* one or cannot be detected; it returns True only for the requested
\* year, with both files written.
C6_YearGate ==
  Detected =>
    /\ html_year = TitleYear(soup[1].title)
    /\ html_year # year =>
         pc = "html_done" /\ ret = Some(FALSE) /\ error = None /\ NothingParsedOrWritten
    /\ ret = Some(TRUE) =>
         html_year = year /\ tax_csv # None /\ worksheet_csv # None
    /\ (html_year = year /\ pc = "html_done") => ret = Some(TRUE)

\* scrape_html returned False for a title of another year, and for a
\* title with no year in it the run ends the same way
C6_Witness ==
  /\ pc = "html_done"
  /\ ret = Some(FALSE)
  /\ html_year # None
  /\ html_year # year
  /\ tax_csv = None

\* the first section A..D whose text (in the title or the body) or
\* following table is missing, or 0
FirstMissing(d) ==
  CASE d.worksheet = "missing_a" /\ ~TitleNamesSectionA(d) -> 1
    [] d.worksheet = "missing_c" -> 3
    [] d.worksheet = "no_table_d" -> 4
    [] OTHER -> 0

SectionErrors == {Some(NoSectionError), Some(NoSectionTableError)}

\* C7: when a section's text or table is missing, the HTML worksheet
\* parser raises at the first such section in the order A..D, returns no
\* mapping, and nothing of the worksheet is written.
C7_FailFast ==
  OnHtml =>
    /\ FirstMissing(soup[1]) # 0 =>
         /\ worksheet = None
         /\ worksheet_csv = None
         /\ ret # Some(TRUE)
         /\ sec_i < FirstMissing(soup[1])
         /\ (pc = "html_worksheet" /\ sec_i + 1 = FirstMissing(soup[1])) =>
              HtmlSection(Soup(soup[1]), sec_i + 1).kind = "raise"
    /\ error \in SectionErrors =>
         /\ pc = "raised"
         /\ sec_i + 1 = FirstMissing(soup[1])
         /\ worksheet = None
         /\ worksheet_csv = None

\* the parser raised at section C with the brackets of sections A and B
\* parsed
C7_Witness ==
  /\ error = Some(NoSectionError)
  /\ sec_i = 2
  /\ Len(ws_results) = 2
  /\ Len(ws_results[1].brackets) > 0
  /\ worksheet = None

\* C8: no row, line or window that fails to parse ends the extraction
\* with an error.
C8_NoRowAborts == error # Some(ValueErrorInt)

\* C9: the resolver (sort by income_min, keep the first row of each
\* (income_min, income_max)) applied to its own output returns it
\* unchanged, for every sequence of rows.
C9_Idempotent == tax_table # None => Resolve(tax_table[1]) = tax_table[1]

\* the resolver was given rows out of order with a repeated key, and
\* returned fewer rows, two of them of the same income_min
C9_Witness ==
  /\ pc = "rows_done"
  /\ ~NonDecreasing(sample[1])
  /\ results = SortByMin(sample[1])
  /\ Len(tax_table[1]) < Len(results)
  /\ ~StrictlyIncreasing(tax_table[1])

BoundsAre(r, lo, hi) ==
  r.kind = "bracket" => (r.bracket.income_min = lo /\ r.bracket.income_max = hi)

\* C10: of "At least $X but not over $Y" the bracket has income_min = X
\* and income_max = Y; of "Over $X" it has income_min = X and no
\* income_max; the same in the HTML and the PDF row parser.
C10_Bounds ==
  parsed # None =>
    LET d == sample[1]
        h == parsed[1].html
        p == parsed[1].pdf
    IN /\ d.shape = "at_least" =>
            BoundsAre(h, Some(d.x), Some(d.y)) /\ BoundsAre(p, Some(d.x), Some(d.y))
       /\ d.shape = "over" =>
            /\ BoundsAre(h, Some(d.x), None) /\ BoundsAre(p, Some(d.x), None)
            /\ (d.has_rate /\ d.cells = 6) => (h.kind = "bracket" /\ p.kind = "bracket")
       /\ (h.kind = "bracket" /\ p.kind = "bracket") =>
            Bounds(<<h.bracket>>) = Bounds(<<p.bracket>>)

\* both parsers made a bracket of "At least $100,000 but not over $103,350"
C10_Witness ==
  /\ parsed # None
  /\ sample[1].shape = "at_least"
  /\ sample[1].x = 100000
  /\ sample[1].y = 103350
  /\ parsed[1].html.kind = "bracket"
  /\ parsed[1].pdf.kind = "bracket"

(* the page scan of parse_tax_table_pdf *)

\* C11, as stated: after any page whose text contains "Tax Computation
\* Worksheet" the page scan is not in the tax table.
C11_WorksheetTextCloses ==
  (InTableScan /\ page_i >= 1 /\ pdf[page_i] \in WorksheetTextKinds) => ~in_tax_table

\* C11, amended: after a page whose text contains "Tax Computation
\* Worksheet" and not "Tax Table" with "Your tax is" or "At But", the page
\* scan is not in the tax table, and every accumulated row is a row of a
\* page that is neither such a page nor follows one with no heading page
\* in between; a page with the heading markers and the worksheet text
\* leaves the scan in the tax table and its rows are accumulated.
C11_WorksheetAloneCloses ==
  (InTableScan /\ page_i >= 1) =>
    /\ Closed(page_i) => ~in_tax_table
    /\ pdf[page_i] \in HeadingKinds \cap WorksheetTextKinds =>
         (in_tax_table /\ Range(PageRows(page_i)) \subseteq Range(results))
    /\ \A r \in Range(results) :
         \E k \in 1..page_i : ~Closed(k) /\ r \in Range(PageRows(k))

\* heading page, worksheet page, page of rows: the third page gave nothing
C11_Witness ==
  /\ InTableScan
  /\ page_i = 3
  /\ pdf = <<"heading", "worksheet", "continued">>
  /\ ~in_tax_table
  /\ Len(results) = 2

\* C12: the page scan starts outside the tax table; after each page it is
\* in the tax table exactly if a heading page was seen with no
\* worksheet-only page since, and the accumulated rows are those of the
\* pages for which that holds, the heading page included.
C12_PagesSegmented ==
  InTableScan =>
    /\ page_i = 0 => (~in_tax_table /\ results = <<>>)
    /\ page_i >= 1 => (in_tax_table <=> Open(page_i))
    /\ results = SegmentedRows(page_i)

\* a page of rows that mentions the Tax Table, the heading page, a page of
\* rows: the first gave nothing, the other two were segmented
C12_Witness ==
  /\ InTableScan
  /\ page_i = 3
  /\ pdf = <<"mention", "heading", "continued">>
  /\ in_tax_table
  /\ Len(results) = 6

(* the windowed scan *)

\* the six tokens from cursor i are written as integers within the bounds
ValidGroup(toks, i) ==
  /\ \A k \in 1..6 : toks[i + k].int
  /\ (toks[i + 2].n - toks[i + 1].n) \in {5, 10, 25, 50}
  /\ toks[i + 2].n <= 100000
  /\ toks[i + 1].n >= 0

WrittenRow(toks, i) ==
  [income_min |-> toks[i + 1].n, income_max |-> toks[i + 2].n,
   single |-> toks[i + 3].n, married_filing_jointly |-> toks[i + 4].n,
   married_filing_separately |-> toks[i + 5].n, head_of_household |-> toks[i + 6].n]

\* C13: the windowed scan emits the row of the 6-token window at the cursor
\* and moves the cursor by 6 exactly when the six tokens are integers with
\* a width of 5, 10, 25 or 50, income_max <= 100000 and income_min >= 0;
\* otherwise it emits nothing and moves the cursor by 1; the rows are those
\* of the emitted windows in order.  The scan runs on the lines of 6
\* tokens or more whose first token is an integer.
C13_WindowSteps ==
  /\ (scan # None /\ pc = "scan_skipped") =>
       /\ Len(scan[1].toks) < 6 \/ ~scan[1].toks[1].int
       /\ scan[1].rows = <<>>
       /\ scan[1].steps = <<>>
  /\ (scan # None /\ pc # "scan_skipped") =>
    LET toks == scan[1].toks
        steps == scan[1].steps
        emitted == SelectSeq(steps, LAMBDA st : st.emitted)
    IN /\ \A k \in 1..Len(steps) :
            /\ steps[k].emitted <=> ValidGroup(toks, steps[k].at)
            /\ steps[k].at = IF k = 1 THEN 0
                             ELSE steps[k - 1].at + (IF steps[k - 1].emitted THEN 6 ELSE 1)
       /\ scan[1].i = IF steps = <<>> THEN 0
                      ELSE steps[Len(steps)].at
                             + (IF steps[Len(steps)].emitted THEN 6 ELSE 1)
       /\ scan[1].rows = [k \in 1..Len(emitted) |-> WrittenRow(toks, emitted[k].at)]
       /\ Len(toks) >= 6 /\ toks[1].int
       /\ pc = "scan_done" =>
            /\ scan[1].rows = ScanWindows(scan[1].parts, 0, <<>>)
            /\ ~(scan[1].i + 5 < Len(toks))

\* the line 50,000 50,050 5,920 5,526 5,920 5,832 53,000 53,050 6,420 6,026
\* 6,420 6,332 gave two rows in two steps
C13_Witness ==
  /\ pc = "scan_done"
  /\ scan[1].toks = GroupToks(50000, 50050, 5920, 5526, 5920, 5832)
                      \o GroupToks(53000, 53050, 6420, 6026, 6420, 6332)
  /\ scan[1].steps = <<[at |-> 0, emitted |-> TRUE], [at |-> 6, emitted |-> TRUE]>>
  /\ Len(scan[1].rows) = 2

(* the worksheet page of parse_computation_worksheet_pdf *)

\* the pages written with the worksheet text and 4 tables of 6 rows, or
\* fewer and 4 tables of 5 to 7 rows
QualifyingKinds == {"ws_std", "ws_relaxed", "ws_odd", "ws_commas", "ws_mixed"}

QualifyingPages == {k \in 1..Len(pdf) : pdf[k] \in QualifyingKinds}

\* C14: the worksheet scan skips every page without the worksheet text or
\* without 4 candidate tables (tables of 6 rows, or if fewer than 4, tables
\* of 5 to 7 rows), reads the first page with 4 candidates, gives its first
\* 4 candidates in document order to single, married_filing_jointly,
\* married_filing_separately, head_of_household, and examines no later
\* page.
C14_FirstQualifyingPage ==
  (soup = None /\ pc \in {"pdf_worksheet", "pdf_write_worksheet", "pdf_done", "raised"}) =>
    /\ pc = "pdf_worksheet" =>
         (worksheet = None /\ \A k \in 1..page_i : pdf[k] \notin QualifyingKinds)
    /\ pc = "raised" => (QualifyingPages # {} /\ page_i + 1 = Least(QualifyingPages))
    /\ worksheet = Some(<<>>) => QualifyingPages = {}
    /\ (worksheet # None /\ worksheet # Some(<<>>)) =>
         /\ QualifyingPages # {}
         /\ page_i + 1 = Least(QualifyingPages)
         /\ Len(worksheet[1]) = 4
         /\ \A n \in 1..4 :
              /\ worksheet[1][n].filing_status = FILING_STATUSES[n]
              /\ Bounds(worksheet[1][n].brackets)
                   = WrittenBounds(ReadTables(pdf[page_i + 1])[n], FALSE)

\* a page with three tables was skipped, the next page has tables of 5 and
\* 7 rows among five tables of 6 rows, and a third page qualifies too: the
\* second page was read, its second table of 6 rows given to
\* married_filing_jointly
C14_Witness ==
  /\ pc = "pdf_done"
  /\ pdf = <<"ws_three", "ws_mixed", "ws_std">>
  /\ page_i = 1
  /\ worksheet # None
  /\ Len(worksheet[1]) = 4
  /\ Len(worksheet[1][2].brackets) = 2
  /\ Unbounded(worksheet[1][2].brackets) = {}

(* the two worksheet row parsers *)

\* C15, as stated: of the same cell texts the PDF row parser emits a row
\* exactly if the HTML row parser does, and then the same bracket.
C15_SameRows ==
  parsed # None =>
    /\ parsed[1].pdf.kind = "bracket" <=> parsed[1].html.kind = "bracket"
    /\ parsed[1].pdf.kind = "bracket" => parsed[1].pdf = parsed[1].html

\* the cells of a row of fewer than 5 cells, with empty texts up to 5
PaddedCells(d) ==
  [k \in 1..5 |-> IF k <= d.cells THEN RowCells(d)[k] ELSE <<>>]

\* C15, amended: of the same cell texts, at least 5 of them, the PDF row
\* parser does as the HTML row parser: both skip the row, both raise the
\* ValueError of int(), or both emit the same bracket; the row is skipped
\* unless the first cell holds "100,000" or "Over" and the third a rate in
\* parentheses, and the error is raised if a dollar amount of the first
\* cell is commas only.  Of fewer than 5 cells the HTML parser skips the
\* row, and the PDF parser does what both do of the row filled up to 5
\* cells with empty texts: it skips a row of fewer than 3 cells, and of 3
\* or 4 cells it skips, raises or emits by the same tests, the bracket
\* with the subtraction amount 0.0.
C15_SameRowsOfFiveCells ==
  parsed # None =>
    LET d == sample[1]
        h == parsed[1].html
        p == parsed[1].pdf
        filtered == \/ d.shape \in {"over", "over_range", "commas"}
                    \/ d.shape = "at_least" /\ 100000 \in {d.x, d.y}
        outcome(n) == IF ~(filtered /\ d.has_rate /\ n >= 3) THEN "skip"
                      ELSE IF d.shape = "commas" THEN "raise"
                      ELSE "bracket"
    IN /\ d.cells >= 5 =>
            /\ p = h
            /\ h.kind = outcome(d.cells)
            /\ h.kind = "raise" => h = Raise(ValueErrorInt)
       /\ d.cells < 5 =>
            /\ h = Skip
            /\ p.kind = outcome(d.cells)
            /\ p = HtmlWorksheetRow(CellTexts(PaddedCells(d)))
            /\ p.kind = "raise" => p = Raise(ValueErrorInt)
            /\ p.kind = "bracket" => p.bracket.subtraction_amount = ZeroFloat

\* of the three cells "Over $626,350", "$", "x (0.22)" the PDF parser made a
\* bracket and the HTML parser nothing
C15_Witness ==
  /\ parsed # None
  /\ sample[1].shape = "over"
  /\ sample[1].x = 626350
  /\ sample[1].cells = 3
  /\ parsed[1].html.kind = "skip"
  /\ parsed[1].pdf.kind = "bracket"
  /\ parsed[1].pdf.bracket.income_max = None

(* the resolver's choice of rows *)

Keys(rows) == {RowKey(rows[k]) : k \in 1..Len(rows)}

\* the first row of the key in the order the rows were accumulated
FirstOfKey(rows, key) ==
  rows[Least({k \in 1..Len(rows) : RowKey(rows[k]) = key})]

\* C16: the resolver returns one row for each (income_min, income_max) of
\* the accumulated rows and no other row, and the row of a key is the
\* first accumulated row of that key.
C16_FirstRowPerKey ==
  pc = "rows_done" =>
    LET out == tax_table[1]
    IN /\ DistinctKeys(out)
       /\ Keys(out) = Keys(sample[1])
       /\ \A k \in 1..Len(out) : out[k] = FirstOfKey(sample[1], RowKey(out[k]))

\* two rows of the key (0, 5) with different amounts were accumulated, the
\* first of them after a row of a greater income_min, among rows of other
\* keys: the first was returned
C16_Witness ==
  /\ pc = "rows_done"
  /\ Len(sample[1]) = 4
  /\ sample[1][1].income_min = 5
  /\ RowKey(sample[1][2]) = <<0, 5>>
  /\ RowKey(sample[1][4]) = <<0, 5>>
  /\ sample[1][2] # sample[1][4]
  /\ RowKey(sample[1][3]) = <<0, 10>>
  /\ Len(tax_table[1]) = 3
  /\ tax_table[1][1] = sample[1][2]

(* the HTML tax-table locator *)

TaxRow(a, b, c, d, e, f) ==
  [income_min |-> a, income_max |-> b, single |-> c, married_filing_jointly |-> d,
   married_filing_separately |-> e, head_of_household |-> f]

\* the rows of six integer cells the big table was written with
WrittenHtmlRows ==
  <<TaxRow(0, 5, 0, 0, 0, 0), TaxRow(5, 15, 1, 1, 1, 1), TaxRow(25, 32, 3, 3, 3, 3),
    TaxRow(50, 40, 4, 4, 4, 4), TaxRow(75, 100, -3, 5, 5, 5),
    TaxRow(1000, 1025, 7, 7, 7, 7), TaxRow(5, 15, 1, 1, 1, 1)>>

\* parse_tax_table_html has run
TaxTableParsed ==
  /\ OnHtml
  /\ entry = Some("scrape_html") => html_year = year
  /\ pc \notin {"html_fetched", "html_tax_table"}

\* C17: the HTML tax-table locator reads the first table of more than 100
\* rows after the first h2 whose stripped text is "Tax Table", passing over
\* tables of 100 rows or fewer and tables ahead of the heading; with no
\* such heading or no such table it raises and no rows are returned or
\* written.
C17_BigTableAfterHeading ==
  TaxTableParsed =>
    LET kind == soup[1].tax
    IN /\ kind \in {"ok", "second"} =>
            (tax_table = Some(WrittenHtmlRows) /\ error \notin {Some(NoHeadingError),
                                                                Some(NoBigTableError)})
       /\ kind = "no_heading" =>
            error = Some(NoHeadingError) /\ pc = "raised" /\ tax_table = None
              /\ tax_csv = None
       /\ kind \in {"hundred", "no_table"} =>
            error = Some(NoBigTableError) /\ pc = "raised" /\ tax_table = None
              /\ tax_csv = None

\* a table of 101 rows ahead of the heading, a table of 100 rows after it,
\* then the table of 102 rows, then a second heading and table: the table
\* of 102 rows was read
C17_Witness ==
  /\ TaxTableParsed
  /\ soup[1].tax = "second"
  /\ tax_table = Some(WrittenHtmlRows)
  /\ tax_csv = tax_table

====
